---------------------------- MODULE Spec2Model ----------------------------
(***************************************************************************)
(* A model of bobsled: the order-preserving key codec (src/src/key),       *)
(* the carry-increment boundary computation and the typed record           *)
(* operations over an ordered byte store (src/src/store.rs,                *)
(* src/src/lib.rs).                                                        *)
(*                                                                         *)
(* Bytes are the integers 0..255 and a byte string is a sequence of them.  *)
(* One set of variables serves several specifications: the codec           *)
(* specifications draw the inputs of a pure function in their initial      *)
(* state and apply the function in their actions; Spec is the store.       *)
(***************************************************************************)
EXTENDS Integers, Sequences, FiniteSets, TLC

VARIABLES pc, args, res, store

vars == <<pc, args, res, store>>

\* BTreeMap::new(): no entry and no root node yet.  A map is [root, map]:
\* whether its root node is allocated, and its entries as a function from
\* key bytes to value bytes.
EmptyMap == [root |-> FALSE, map |-> <<>>]

(***************************************************************************)
(* Bounds of the model.                                                    *)
(***************************************************************************)
\* Integer inputs are taken within Spread of each boundary point of a type.
Spread == 1

(***************************************************************************)
(* Byte arithmetic.                                                        *)
(***************************************************************************)
Byte == 0..255

RECURSIVE Pow2(_)
Pow2(n) == IF n = 0 THEN 1 ELSE 2 * Pow2(n - 1)

\* a ^ b on the low n bits (the u8 `^` operator, n = 8)
RECURSIVE XorBits(_, _, _)
XorBits(a, b, n) ==
    IF n = 0 THEN 0
    ELSE (IF (a % 2) # (b % 2) THEN 1 ELSE 0) + 2 * XorBits(a \div 2, b \div 2, n - 1)

BitXor(a, b) == XorBits(a, b, 8)

\* a & b on the low n bits (the u8 `&` operator, n = 8)
RECURSIVE AndBits(_, _, _)
AndBits(a, b, n) ==
    IF n = 0 THEN 0
    ELSE (IF (a % 2) = 1 /\ (b % 2) = 1 THEN 1 ELSE 0) + 2 * AndBits(a \div 2, b \div 2, n - 1)

BitAnd(a, b) == AndBits(a, b, 8)

\* The suffix of a byte string from position n + 1 (slice::split_at(n).1)
DropBytes(s, n) == SubSeq(s, n + 1, Len(s))

\* The first n bytes of a byte string (slice::split_at(n).0)
TakeBytes(s, n) == SubSeq(s, 1, n)

IsPrefix(p, s) == Len(p) <= Len(s) /\ TakeBytes(s, Len(p)) = p

\* Ord for [u8]: byte-lexicographic order, a strict prefix sorting first
RECURSIVE BytesLt(_, _)
BytesLt(a, b) ==
    IF b = <<>> THEN FALSE
    ELSE IF a = <<>> THEN TRUE
    ELSE IF a[1] # b[1] THEN a[1] < b[1]
    ELSE BytesLt(Tail(a), Tail(b))

BytesLe(a, b) == a = b \/ BytesLt(a, b)

\* {integer}::to_be_bytes for a type of w bytes: two's complement, most
\* significant byte first (\div rounds down, so a negative value sign-extends)
RECURSIVE ToBeBytes(_, _)
ToBeBytes(w, v) ==
    IF w = 0 THEN <<>> ELSE Append(ToBeBytes(w - 1, v \div 256), v % 256)

\* {unsigned}::from_be_bytes
RECURSIVE FromBeAcc(_, _)
FromBeAcc(acc, data) ==
    IF data = <<>> THEN acc ELSE FromBeAcc(acc * 256 + data[1], Tail(data))

FromBeBytesU(data) == FromBeAcc(0, data)

\* {signed}::from_be_bytes: the two's-complement reading of the bytes
FromBeBytesI(data) ==
    IF data[1] >= 128
    THEN -1 - FromBeBytesU([i \in 1..Len(data) |-> 255 - data[i]])
    ELSE FromBeBytesU(data)

(***************************************************************************)
(* Results of a decode: Ok((value, remainder)) or Err(error).              *)
(***************************************************************************)
Ok(v, rest) == [ok |-> TRUE, value |-> v, rest |-> rest]

Err(e) == [ok |-> FALSE, err |-> e]

DataTooShort(expected, actual) ==
    [kind |-> "DataTooShort", expected |-> expected, actual |-> actual]

(***************************************************************************)
(* Fixed-width integers.                                                   *)
(***************************************************************************)
EncodeUint(w, v) == ToBeBytes(w, v)

TryDecodeUint(w, bytes) ==
    IF Len(bytes) < w
    THEN Err(DataTooShort(w, Len(bytes)))
    ELSE Ok(FromBeBytesU(TakeBytes(bytes, w)), DropBytes(bytes, w))

\* a plausible slip: the sign bit left as two's complement has it
EncodeIntNoFlip(w, v) == ToBeBytes(w, v)

EncodeInt(w, v) ==
    LET bytes == ToBeBytes(w, v)
    IN  [bytes EXCEPT ![1] = BitXor(@, 128)]

\* a plausible slip: the decoder reads the bytes without undoing the flip
TryDecodeIntNoFlip(w, bytes) ==
    IF Len(bytes) < w
    THEN Err(DataTooShort(w, Len(bytes)))
    ELSE Ok(FromBeBytesI(TakeBytes(bytes, w)), DropBytes(bytes, w))

TryDecodeInt(w, bytes) ==
    IF Len(bytes) < w
    THEN Err(DataTooShort(w, Len(bytes)))
    ELSE LET data == TakeBytes(bytes, w)
             flipped == [data EXCEPT ![1] = BitXor(@, 128)]
         IN  Ok(FromBeBytesI(flipped), DropBytes(bytes, w))

(***************************************************************************)
(* IEEE-754 floats.  A float is [sign, exp, mant], the fields of its bit   *)
(* pattern; a type of w bytes has ExpBits(w) exponent bits.                *)
(***************************************************************************)
ExpBits(w) == IF w = 4 THEN 8 ELSE 11

MantTopBits(w) == 15 - ExpBits(w)

RECURSIVE ShrBytes(_, _)
ShrBytes(v, n) == IF n = 0 THEN v ELSE ShrBytes(v \div 256, n - 1)

\* f32/f64::to_be_bytes: sign, exponent and the top mantissa bits fill the
\* first two bytes, the rest of the mantissa the other w - 2
FloatToBeBytes(w, f) ==
    LET top == f.sign * 32768 + f.exp * Pow2(MantTopBits(w)) + ShrBytes(f.mant, w - 2)
    IN  ToBeBytes(2, top) \o ToBeBytes(w - 2, f.mant)

\* f32/f64::from_be_bytes
FloatFromBeBytes(w, data) ==
    LET top == data[1] * 256 + data[2]
        low == Pow2(MantTopBits(w))
    IN  [sign |-> top \div 32768,
         exp  |-> (top % 32768) \div low,
         mant |-> FromBeAcc(top % low, DropBytes(data, 2))]

ExpMax(w) == Pow2(ExpBits(w)) - 1

IsNaN(w, f) == f.exp = ExpMax(w) /\ f.mant # 0

IsZero(f) == f.exp = 0 /\ f.mant = 0

MagLt(a, b) == a.exp < b.exp \/ (a.exp = b.exp /\ a.mant < b.mant)

\* The `<` of two non-NaN floats: sign and magnitude, the two zeros equal
FloatLt(a, b) ==
    IF IsZero(a) /\ IsZero(b) THEN FALSE
    ELSE IF a.sign # b.sign THEN a.sign = 1
    ELSE IF a.sign = 0 THEN MagLt(a, b)
    ELSE MagLt(b, a)

\* a plausible slip: the sign bit flipped whatever the sign
EncodeFloatFlipOnly(w, f) ==
    LET bytes == FloatToBeBytes(w, f)
    IN  [bytes EXCEPT ![1] = BitXor(@, 128)]

EncodeFloat(w, f) ==
    LET bytes == FloatToBeBytes(w, f)
    IN  IF BitAnd(bytes[1], 128) = 0
        THEN [bytes EXCEPT ![1] = BitXor(@, 128)]
        ELSE [i \in 1..w |-> BitXor(bytes[i], 255)]

TryDecodeFloat(w, bytes) ==
    IF Len(bytes) < w
    THEN Err(DataTooShort(w, Len(bytes)))
    ELSE LET data == TakeBytes(bytes, w)
             raw  == IF BitAnd(data[1], 128) = 128
                     THEN [data EXCEPT ![1] = BitXor(@, 128)]
                     ELSE [i \in 1..w |-> BitXor(data[i], 255)]
         IN  Ok(FloatFromBeBytes(w, raw), DropBytes(bytes, w))

(***************************************************************************)
(* The numeric key types and the dispatch on them.                         *)
(***************************************************************************)
UintT(w) == [k |-> "uint", w |-> w]
IntT(w) == [k |-> "int", w |-> w]
FloatT(w) == [k |-> "float", w |-> w]

\* u8, u16, u32, u64/usize; i8, i16, i32, i64/isize; f32, f64
NumTypes ==
    {UintT(w) : w \in {1, 2, 4, 8}} \cup {IntT(w) : w \in {1, 2, 4, 8}}
        \cup {FloatT(w) : w \in {4, 8}}

EncodeNum(t, v) ==
    CASE t.k = "uint"  -> EncodeUint(t.w, v)
      [] t.k = "int"   -> EncodeInt(t.w, v)
      [] t.k = "float" -> EncodeFloat(t.w, v)

TryDecodeNum(t, bytes) ==
    CASE t.k = "uint"  -> TryDecodeUint(t.w, bytes)
      [] t.k = "int"   -> TryDecodeInt(t.w, bytes)
      [] t.k = "float" -> TryDecodeFloat(t.w, bytes)

\* The natural `<` of the type
NumLt(t, a, b) == IF t.k = "float" THEN FloatLt(a, b) ELSE a < b

(***************************************************************************)
(* Inputs of the numeric codec.                                            *)
(***************************************************************************)
\* The largest integer the checker represents, 2^31 - 1: wider types are
\* sampled below it
IntCap == (Pow2(30) - 1) + Pow2(30)

NearPoints ==
    {p + d : p \in {1, 128, 256, 32768, 65536, IntCap - Spread}, d \in -Spread..Spread}

IntCandidates == NearPoints \cup {-x : x \in NearPoints} \cup {-x - 1 : x \in NearPoints}

TypeMax(t) ==
    IF t.k = "uint"
    THEN (IF t.w = 1 THEN 255 ELSE IF t.w = 2 THEN 65535 ELSE IntCap)
    ELSE (IF t.w = 1 THEN 127 ELSE IF t.w = 2 THEN 32767 ELSE IntCap)

TypeMin(t) == IF t.k = "uint" THEN 0 ELSE -TypeMax(t) - 1

Bias(w) == Pow2(ExpBits(w) - 1) - 1

MantCap(w) == IF w = 4 THEN Pow2(23) - 1 ELSE IntCap

FloatSample(w) ==
    [sign : {0, 1},
     exp  : {0, 1, Bias(w), Bias(w) + 1, ExpMax(w) - 1, ExpMax(w)},
     mant : {0, 1, Pow2(22), MantCap(w)}]

NumSample(t) ==
    IF t.k = "float" THEN FloatSample(t.w)
    ELSE {v \in IntCandidates : TypeMin(t) <= v /\ v <= TypeMax(t)}

\* Bytes that follow an encoding in a buffer
Suffixes == {<<>>, <<255, 0>>}

(***************************************************************************)
(* SpecNum: two values of one numeric type are encoded, then the first     *)
(* encoding, followed by a suffix, is decoded.                             *)
(***************************************************************************)
NumInit ==
    /\ pc = "num"
    /\ \E t \in NumTypes :
          args \in {[t |-> t, a |-> a, b |-> b, s |-> s] :
                       a \in NumSample(t), b \in NumSample(t), s \in Suffixes}
    /\ res = <<>>
    /\ store = EmptyMap

NumEncode ==
    /\ pc = "num"
    /\ pc' = "num_encoded"
    /\ res' = [ea |-> EncodeNum(args.t, args.a), eb |-> EncodeNum(args.t, args.b)]
    /\ UNCHANGED <<args, store>>

NumDecode ==
    /\ pc = "num_encoded"
    /\ pc' = "num_decoded"
    /\ res' = [ea |-> res.ea, eb |-> res.eb, dec |-> TryDecodeNum(args.t, res.ea \o args.s)]
    /\ UNCHANGED <<args, store>>

NumNext == NumEncode \/ NumDecode

SpecNum == NumInit /\ [][NumNext]_vars

IsIntType(t) == t.k \in {"uint", "int"}

NegZero == [sign |-> 1, exp |-> 0, mant |-> 0]

PosZero == [sign |-> 0, exp |-> 0, mant |-> 0]

\* C1: for every fixed-width integer type and all values a, b of it, a < b
\* exactly when encode(a) is byte-lexicographically below encode(b); so a
\* negative value encodes below zero and below every positive value.
C1_IntOrderPreserved ==
    (pc \in {"num_encoded", "num_decoded"} /\ IsIntType(args.t))
        => ((args.a < args.b) <=> BytesLt(res.ea, res.eb))

C1_Witness ==
    /\ pc = "num_encoded"
    /\ args.t = IntT(4)
    /\ args.a = -1
    /\ args.b = 0
    /\ res.ea = <<127, 255, 255, 255>>
    /\ res.eb = <<128, 0, 0, 0>>
    /\ BytesLt(res.ea, res.eb)

BothNumbers == ~IsNaN(args.t.w, args.a) /\ ~IsNaN(args.t.w, args.b)

\* C2 as stated: for all non-NaN floats a, b of one width, zeros included,
\* a < b exactly when encode(a) is byte-lexicographically below encode(b).
C2_FloatOrderIff ==
    (pc \in {"num_encoded", "num_decoded"} /\ args.t.k = "float" /\ BothNumbers)
        => (FloatLt(args.a, args.b) <=> BytesLt(res.ea, res.eb))

\* C2 as amended: for all non-NaN floats a, b of one width, encode(a) is
\* byte-lexicographically below encode(b) exactly when a < b or a is -0.0
\* and b is +0.0: the two zeros compare equal and -0.0 encodes below +0.0.
C2_FloatOrderUpToZeroSign ==
    (pc \in {"num_encoded", "num_decoded"} /\ args.t.k = "float" /\ BothNumbers)
        => (BytesLt(res.ea, res.eb)
              <=> (FloatLt(args.a, args.b) \/ (args.a = NegZero /\ args.b = PosZero)))

C2_Witness ==
    /\ pc = "num_encoded"
    /\ args.t = FloatT(8)
    /\ args.a = NegZero
    /\ args.b = PosZero
    /\ ~FloatLt(args.a, args.b)
    /\ res.ea = <<127, 255, 255, 255, 255, 255, 255, 255>>
    /\ res.eb = <<128, 0, 0, 0, 0, 0, 0, 0>>

\* C3: for every value v of a fixed-width numeric type (a float taken as its
\* bit pattern) and every byte string s, try_decode(encode(v) ++ s) succeeds
\* with exactly (v, s).
C3_NumRoundTrip ==
    (pc = "num_decoded")
        => (res.dec.ok /\ res.dec.value = args.a /\ res.dec.rest = args.s)

C3_Witness ==
    /\ pc = "num_decoded"
    /\ args.t = IntT(2)
    /\ args.a = -129
    /\ args.s = <<255, 0>>
    /\ res.dec = Ok(-129, <<255, 0>>)

(***************************************************************************)
(* Strings: a usize length header, then the UTF-8 bytes.                   *)
(***************************************************************************)
\* size_of::<usize>() on a 64-bit target
UsizeBytes == 8

IsCont(b) == 128 <= b /\ b <= 191

\* core::str::from_utf8 succeeds: the bytes are well-formed UTF-8
RECURSIVE ValidUtf8(_)
ValidUtf8(bytes) ==
    IF bytes = <<>> THEN TRUE
    ELSE LET b1 == bytes[1]
             n  == Len(bytes)
         IN  IF b1 < 128 THEN ValidUtf8(DropBytes(bytes, 1))
             ELSE IF 194 <= b1 /\ b1 <= 223
             THEN n >= 2 /\ IsCont(bytes[2]) /\ ValidUtf8(DropBytes(bytes, 2))
             ELSE IF 224 <= b1 /\ b1 <= 239
             THEN /\ n >= 3
                  /\ IsCont(bytes[2])
                  /\ (b1 = 224 => bytes[2] >= 160)
                  /\ (b1 = 237 => bytes[2] <= 159)
                  /\ IsCont(bytes[3])
                  /\ ValidUtf8(DropBytes(bytes, 3))
             ELSE IF 240 <= b1 /\ b1 <= 244
             THEN /\ n >= 4
                  /\ IsCont(bytes[2])
                  /\ (b1 = 240 => bytes[2] >= 144)
                  /\ (b1 = 244 => bytes[2] <= 143)
                  /\ IsCont(bytes[3])
                  /\ IsCont(bytes[4])
                  /\ ValidUtf8(DropBytes(bytes, 4))
             ELSE FALSE

\* a plausible slip: the content written without its length header
EncodeStrNoHeader(str) == str

\* A string is the sequence of its UTF-8 bytes
EncodeStr(str) == ToBeBytes(UsizeBytes, Len(str)) \o str

\* a plausible slip: the second error reports the whole buffer's length
TryDecodeStringWholeLen(bytes) ==
    IF Len(bytes) < UsizeBytes
    THEN Err(DataTooShort(UsizeBytes, Len(bytes)))
    ELSE LET len  == FromBeBytesU(TakeBytes(bytes, UsizeBytes))
             body == DropBytes(bytes, UsizeBytes)
         IN  IF Len(body) < len
             THEN Err(DataTooShort(len, Len(bytes)))
             ELSE IF ValidUtf8(TakeBytes(body, len))
             THEN Ok(TakeBytes(body, len), DropBytes(body, len))
             ELSE Err([kind |-> "Utf8Error"])

TryDecodeString(bytes) ==
    IF Len(bytes) < UsizeBytes
    THEN Err(DataTooShort(UsizeBytes, Len(bytes)))
    ELSE LET len  == FromBeBytesU(TakeBytes(bytes, UsizeBytes))
             body == DropBytes(bytes, UsizeBytes)
         IN  IF Len(body) < len
             THEN Err(DataTooShort(len, Len(body)))
             ELSE IF ValidUtf8(TakeBytes(body, len))
             THEN Ok(TakeBytes(body, len), DropBytes(body, len))
             ELSE Err([kind |-> "Utf8Error"])

(***************************************************************************)
(* SpecStr: two strings are encoded, then a buffer holding the first       *)
(* encoding and a suffix, cut to some length, is decoded.                  *)
(***************************************************************************)
\* Strings have at most MaxStrLen bytes.
MaxStrLen == 2

\* 'a', 'b', and the two bytes of U+00E9
StrBytes == {97, 98, 195, 169}

RECURSIVE SeqsUpTo(_, _)
SeqsUpTo(S, n) ==
    IF n = 0 THEN {<<>>}
    ELSE LET shorter == SeqsUpTo(S, n - 1)
         IN  shorter \cup {Append(q, x) : q \in {r \in shorter : Len(r) = n - 1}, x \in S}

Strings == {q \in SeqsUpTo(StrBytes, MaxStrLen) : ValidUtf8(q)}

StrInit ==
    /\ pc = "str"
    /\ \E a \in Strings, b \in Strings, s \in Suffixes :
          \E cut \in 0..(UsizeBytes + Len(a) + Len(s)) :
              args = [a |-> a, b |-> b, s |-> s, cut |-> cut]
    /\ res = <<>>
    /\ store = EmptyMap

StrEncode ==
    /\ pc = "str"
    /\ pc' = "str_encoded"
    /\ res' = [ea |-> EncodeStr(args.a), eb |-> EncodeStr(args.b)]
    /\ UNCHANGED <<args, store>>

StrDecode ==
    /\ pc = "str_encoded"
    /\ pc' = "str_decoded"
    /\ res' = [ea |-> res.ea, eb |-> res.eb,
               dec |-> TryDecodeString(TakeBytes(res.ea \o args.s, args.cut))]
    /\ UNCHANGED <<args, store>>

StrNext == StrEncode \/ StrDecode

SpecStr == StrInit /\ [][StrNext]_vars

\* C4: String::try_decode(encode(v) ++ s) is (v, s), encode(v) being the
\* 8-byte big-endian length of v and then its bytes; a buffer shorter than
\* the header fails with DataTooShort{header size, buffer length}; a body
\* shorter than the declared length fails with DataTooShort{declared length,
\* bytes after the header}.
C4_StringDecode ==
    (pc = "str_decoded") =>
        /\ res.ea = ToBeBytes(UsizeBytes, Len(args.a)) \o args.a
        /\ (args.cut = Len(res.ea) + Len(args.s) => res.dec = Ok(args.a, args.s))
        /\ (args.cut < UsizeBytes
               => res.dec = Err(DataTooShort(UsizeBytes, args.cut)))
        /\ (args.cut >= UsizeBytes /\ args.cut - UsizeBytes < Len(args.a)
               => res.dec = Err(DataTooShort(Len(args.a), args.cut - UsizeBytes)))

C4_Witness ==
    /\ pc = "str_decoded"
    /\ args.a = <<195, 169>>
    /\ args.s = <<255, 0>>
    /\ args.cut = 9
    /\ res.ea = <<0, 0, 0, 0, 0, 0, 0, 2, 195, 169>>
    /\ res.dec = Err(DataTooShort(2, 1))

\* C5: the string encoding compares length before content: len(a) < len(b)
\* puts encode(a) byte-lexicographically below encode(b) whatever the
\* contents (the witness: a pair with a > b and encode(a) below encode(b)).
C5_LengthBeforeContent ==
    (pc \in {"str_encoded", "str_decoded"})
        => (Len(args.a) < Len(args.b) => BytesLt(res.ea, res.eb))

C5_Witness ==
    /\ pc = "str_encoded"
    /\ args.a = <<98>>
    /\ args.b = <<97, 97>>
    /\ BytesLt(args.b, args.a)
    /\ BytesLt(res.ea, res.eb)

(***************************************************************************)
(* Key types in general and tuples of them.                                *)
(***************************************************************************)
StringT == [k |-> "string", w |-> 0]

TupleT(fields) == [k |-> "tuple", fields |-> fields]

\* [u8; N]
ArrayT(n) == [k |-> "array", w |-> n]

\* GreedyKey<Vec<u8>> and GreedyKey<String>
GreedyBytesT == [k |-> "greedy_bytes", w |-> 0]
GreedyStringT == [k |-> "greedy_string", w |-> 0]

\* <[u8; N]>::encode: the array itself
EncodeArray(n, v) == v

\* a plausible slip: fewer than or exactly N bytes refused
TryDecodeArrayNeedsMore(n, bytes) ==
    IF Len(bytes) <= n
    THEN Err(DataTooShort(n, Len(bytes)))
    ELSE Ok(TakeBytes(bytes, n), DropBytes(bytes, n))

\* <[u8; N]>::try_decode
TryDecodeArray(n, bytes) ==
    IF Len(bytes) < n
    THEN Err(DataTooShort(n, Len(bytes)))
    ELSE Ok(TakeBytes(bytes, n), DropBytes(bytes, n))

\* GreedyKey<Vec<u8>>::encode and GreedyKey<String>::encode: the content,
\* a string being the sequence of its UTF-8 bytes
EncodeGreedy(v) == v

\* a plausible slip: the greedy field takes one byte and leaves the rest
TryDecodeGreedyBytesOneByte(bytes) ==
    IF bytes = <<>> THEN Ok(<<>>, <<>>) ELSE Ok(TakeBytes(bytes, 1), DropBytes(bytes, 1))

\* GreedyKey<Vec<u8>>::try_decode: the whole buffer, nothing left
TryDecodeGreedyBytes(bytes) == Ok(bytes, <<>>)

\* GreedyKey<String>::try_decode: the whole buffer when it is UTF-8
TryDecodeGreedyString(bytes) ==
    IF ValidUtf8(bytes) THEN Ok(bytes, <<>>) ELSE Err([kind |-> "Utf8Error"])

RECURSIVE EncodeKey(_, _)
\* a plausible slip: the fields written last to first
RECURSIVE EncodeTupleReversed(_, _)
EncodeTupleReversed(fields, vs) ==
    IF fields = <<>> THEN <<>>
    ELSE EncodeTupleReversed(Tail(fields), Tail(vs)) \o EncodeKey(Head(fields), Head(vs))

\* (A, B, ...)::encode: each field's encoding appended in turn
RECURSIVE EncodeTuple(_, _)
EncodeTuple(fields, vs) ==
    IF fields = <<>> THEN <<>>
    ELSE EncodeKey(Head(fields), Head(vs)) \o EncodeTuple(Tail(fields), Tail(vs))

\* EncodeKey::encode of a value v of key type t
EncodeKey(t, v) ==
    CASE t.k \in {"uint", "int", "float"} -> EncodeNum(t, v)
      [] t.k = "string" -> EncodeStr(v)
      [] t.k = "tuple"  -> EncodeTuple(t.fields, v)
      [] t.k = "array"  -> EncodeArray(t.w, v)
      [] t.k \in {"greedy_bytes", "greedy_string"} -> EncodeGreedy(v)

\* a plausible slip: the loop stops one element early and never emits the
\* one-field tuple
RECURSIVE PrefixLoopStopsEarly(_)
PrefixLoopStopsEarly(elements) ==
    LET popped == SubSeq(elements, 1, Len(elements) - 1)
    IN  IF Len(popped) <= 1 THEN {}
        ELSE {TupleT(popped)} \cup PrefixLoopStopsEarly(popped)

\* impl_tuple_prefix!: pop the last element; stop when none is left; emit
\* `impl PrefixKey<tuple> for (elements,)`; again.  The set of types emitted.
RECURSIVE PrefixLoop(_)
PrefixLoop(elements) ==
    LET popped == SubSeq(elements, 1, Len(elements) - 1)
    IN  IF popped = <<>> THEN {}
        ELSE {TupleT(popped)} \cup PrefixLoop(popped)

\* The types P with an `impl PrefixKey<t> for P`, t a tuple type: t itself
\* (the blanket impl), the shorter tuples, and the bare first field
DeclaredPrefixTypes(t) == {t} \cup PrefixLoop(t.fields) \cup {t.fields[1]}

(***************************************************************************)
(* SpecTuple: two tuples of one tuple type are encoded, with the leading   *)
(* sub-tuples of the first.                                                *)
(***************************************************************************)
\* Tuples have at most MaxTupleLen fields.
MaxTupleLen == 3

FieldTypes == {UintT(1), IntT(2), FloatT(4)}

FieldSample(t) ==
    CASE t.k = "uint"  -> {1, 255}
      [] t.k = "int"   -> {-1, 256}
      [] t.k = "float" -> {NegZero, PosZero, [sign |-> 0, exp |-> 127, mant |-> Pow2(22)]}

RECURSIVE TupleValues(_)
TupleValues(fields) ==
    IF fields = <<>> THEN {<<>>}
    ELSE {<<x>> \o q : x \in FieldSample(Head(fields)), q \in TupleValues(Tail(fields))}

TupInit ==
    /\ pc = "tup"
    /\ \E ts \in SeqsUpTo(FieldTypes, MaxTupleLen) \ {<<>>} :
          \E a \in TupleValues(ts), b \in TupleValues(ts) :
              args = [ts |-> ts, a |-> a, b |-> b]
    /\ res = <<>>
    /\ store = EmptyMap

TupEncode ==
    /\ pc = "tup"
    /\ pc' = "tup_encoded"
    /\ res' = [ea |-> EncodeKey(TupleT(args.ts), args.a),
               eb |-> EncodeKey(TupleT(args.ts), args.b),
               lead |-> [n \in 1..Len(args.ts) |->
                            EncodeKey(TupleT(SubSeq(args.ts, 1, n)), SubSeq(args.a, 1, n))],
               first |-> EncodeKey(args.ts[1], args.a[1]),
               declared |-> DeclaredPrefixTypes(TupleT(args.ts))]
    /\ UNCHANGED <<args, store>>

TupNext == TupEncode

SpecTuple == TupInit /\ [][TupNext]_vars

\* The fields' encodings one after the other, first field first
RECURSIVE FieldsConcat(_, _, _)
FieldsConcat(ts, vs, n) ==
    IF n = 0 THEN <<>>
    ELSE FieldsConcat(ts, vs, n - 1) \o EncodeKey(ts[n], vs[n])

\* Field equality and order as PartialOrd has them: the two zeros are equal
NatEq(t, x, y) == IF t.k = "float" THEN (IsZero(x) /\ IsZero(y)) \/ x = y ELSE x = y

\* Field order with -0.0 placed below +0.0
SignedZeroLt(t, x, y) ==
    IF t.k = "float" THEN FloatLt(x, y) \/ (x = NegZero /\ y = PosZero) ELSE x < y

\* Tuple a is lexicographically below tuple b, field by field (PartialOrd)
RECURSIVE TupleLt(_, _, _)
TupleLt(ts, a, b) ==
    IF ts = <<>> THEN FALSE
    ELSE IF NatEq(Head(ts), Head(a), Head(b)) THEN TupleLt(Tail(ts), Tail(a), Tail(b))
    ELSE NumLt(Head(ts), Head(a), Head(b))

\* The same with every float field's -0.0 below +0.0
RECURSIVE TupleSignedZeroLt(_, _, _)
TupleSignedZeroLt(ts, a, b) ==
    IF ts = <<>> THEN FALSE
    ELSE IF Head(a) = Head(b) THEN TupleSignedZeroLt(Tail(ts), Tail(a), Tail(b))
    ELSE SignedZeroLt(Head(ts), Head(a), Head(b))

\* C6 as stated: a tuple encodes as its fields' encodings concatenated in
\* declared order, and for fixed-width order-preserving fields tuple a is
\* lexicographically below tuple b exactly when encode(a) is below encode(b).
C6_TupleOrderIff ==
    (pc = "tup_encoded") =>
        /\ res.ea = FieldsConcat(args.ts, args.a, Len(args.ts))
        /\ (TupleLt(args.ts, args.a, args.b) <=> BytesLt(res.ea, res.eb))

\* C6 as amended: a tuple encodes as its fields' encodings concatenated in
\* declared order, and for fields that are fixed-width integers or non-NaN
\* floats encode(a) is below encode(b) exactly when tuple a is
\* lexicographically below tuple b with a float field's -0.0 ordered below
\* its +0.0.
C6_TupleOrderUpToZeroSign ==
    (pc = "tup_encoded") =>
        /\ res.ea = FieldsConcat(args.ts, args.a, Len(args.ts))
        /\ (TupleSignedZeroLt(args.ts, args.a, args.b) <=> BytesLt(res.ea, res.eb))

C6_Witness ==
    /\ pc = "tup_encoded"
    /\ args.ts = <<UintT(1), IntT(2), FloatT(4)>>
    /\ args.a = <<1, 256, NegZero>>
    /\ args.b = <<1, 256, PosZero>>
    /\ res.ea = <<1, 129, 0, 127, 255, 255, 255>>
    /\ res.eb = <<1, 129, 0, 128, 0, 0, 0>>
    /\ BytesLt(res.ea, res.eb)

\* C7: for a tuple key k of N fields and every K with 1 <= K < N, the tuple
\* of k's first K fields is a declared prefix type of k's type and encodes
\* to a byte-prefix of encode(k); so do the bare first field and k itself.
C7_TuplePrefixes ==
    (pc = "tup_encoded") =>
        /\ \A n \in 1..(Len(args.ts) - 1) :
              /\ TupleT(SubSeq(args.ts, 1, n)) \in res.declared
              /\ IsPrefix(res.lead[n], res.ea)
        /\ args.ts[1] \in res.declared
        /\ IsPrefix(res.first, res.ea)
        /\ TupleT(args.ts) \in res.declared
        /\ IsPrefix(res.lead[Len(args.ts)], res.ea)

C7_Witness ==
    /\ pc = "tup_encoded"
    /\ args.ts = <<IntT(2), UintT(1), FloatT(4)>>
    /\ args.a = <<-1, 255, PosZero>>
    /\ res.ea = <<127, 255, 255, 128, 0, 0, 0>>
    /\ res.lead[1] = <<127, 255>>
    /\ res.lead[2] = <<127, 255, 255>>
    /\ TupleT(<<IntT(2)>>) \in res.declared
    /\ TupleT(<<IntT(2), UintT(1)>>) \in res.declared

(***************************************************************************)
(* The boundary algorithm: a byte prefix turned into an upper bound.       *)
(***************************************************************************)
\* a plausible slip: only the last byte is looked at, no carry
CarryIncrementLastOnly(bytes) ==
    IF bytes # <<>> /\ bytes[Len(bytes)] < 255
    THEN [found |-> TRUE,
          bytes |-> Append(SubSeq(bytes, 1, Len(bytes) - 1), bytes[Len(bytes)] + 1)]
    ELSE [found |-> FALSE]

\* `while let Some(last) = end.pop() { if last < u8::MAX { end.push(last + 1);
\* return .. } }`: the bytes after the rightmost byte below 0xFF are dropped
\* and that byte is incremented; found is FALSE when the loop runs out
RECURSIVE CarryIncrement(_)
CarryIncrement(bytes) ==
    IF bytes = <<>> THEN [found |-> FALSE]
    ELSE LET last == bytes[Len(bytes)]
             rest == SubSeq(bytes, 1, Len(bytes) - 1)
         IN  IF last < 255
             THEN [found |-> TRUE, bytes |-> Append(rest, last + 1)]
             ELSE CarryIncrement(rest)

(***************************************************************************)
(* SpecBoundary: the upper bound of a prefix P is computed, to be compared *)
(* with a byte string K.                                                   *)
(***************************************************************************)
\* Prefixes have at most MaxPrefixLen bytes, the strings compared with them
\* one more.
MaxPrefixLen == 2

BoundaryBytes == {0, 1, 254, 255}

BoundaryInit ==
    /\ pc = "boundary"
    /\ \E p \in SeqsUpTo(BoundaryBytes, MaxPrefixLen),
          k \in SeqsUpTo(BoundaryBytes, MaxPrefixLen + 1) :
              args = [p |-> p, k |-> k]
    /\ res = <<>>
    /\ store = EmptyMap

BoundaryCarry ==
    /\ pc = "boundary"
    /\ pc' = "boundary_done"
    /\ res' = CarryIncrement(args.p)
    /\ UNCHANGED <<args, store>>

BoundaryNext == BoundaryCarry

SpecBoundary == BoundaryInit /\ [][BoundaryNext]_vars

AllMax(bytes) == \A i \in 1..Len(bytes) : bytes[i] = 255

\* C8: with U the carry-increment of P, a byte string lies in [P, U) exactly
\* when it has P as a byte-prefix; P empty or all 0xFF has no finite U, and
\* a byte string lies in [P, +infinity) exactly when it has P as a prefix.
C8_PrefixRangeExact ==
    (pc = "boundary_done") =>
        /\ res.found <=> ~AllMax(args.p)
        /\ IsPrefix(args.p, args.k)
              <=> (BytesLe(args.p, args.k) /\ (res.found => BytesLt(args.k, res.bytes)))

C8_Witness ==
    /\ pc = "boundary_done"
    /\ args.p = <<1, 255>>
    /\ args.k = <<1, 255, 254>>
    /\ res = [found |-> TRUE, bytes |-> <<2>>]
    /\ BytesLt(args.k, res.bytes)

(***************************************************************************)
(* The ordered byte store: a BTreeMap<Vec<u8>, Vec<u8>>.                   *)
(***************************************************************************)
\* The keys of a map
Keys(m) == DOMAIN m.map

\* An insert that keeps the value of a key already present
MapInsertKeepOld(m, key, value) ==
    [root |-> TRUE,
     map  |-> [k \in Keys(m) \cup {key} |-> IF k \in Keys(m) THEN m.map[k] ELSE value]]

\* An insert that leaves the new entry alone in the map
MapInsertAlone(m, key, value) == [root |-> TRUE, map |-> [k \in {key} |-> value]]

\* BTreeMap::insert: the entry is added, or its value replaced; the first
\* insert allocates the root
MapInsert(m, key, value) ==
    [root |-> TRUE,
     map  |-> [k \in Keys(m) \cup {key} |-> IF k = key THEN value ELSE m.map[k]]]

\* A remove that removes nothing
MapRemoveNothing(m, key) == m

\* BTreeMap::remove: the entry goes, the root node stays
MapRemove(m, key) == [root |-> m.root, map |-> [k \in Keys(m) \ {key} |-> m.map[k]]]

Included(bytes) == [kind |-> "Included", bytes |-> bytes]

Excluded(bytes) == [kind |-> "Excluded", bytes |-> bytes]

Unbounded == [kind |-> "Unbounded"]

\* A key lies within a pair of byte bounds
InBounds(key, lo, hi) ==
    /\ CASE lo.kind = "Included"  -> BytesLe(lo.bytes, key)
         [] lo.kind = "Excluded"  -> BytesLt(lo.bytes, key)
         [] lo.kind = "Unbounded" -> TRUE
    /\ CASE hi.kind = "Included"  -> BytesLe(key, hi.bytes)
         [] hi.kind = "Excluded"  -> BytesLt(key, hi.bytes)
         [] hi.kind = "Unbounded" -> TRUE

\* The keys of a set, the greatest first
RECURSIVE SortedKeysDescending(_)
SortedKeysDescending(S) ==
    IF S = {} THEN <<>>
    ELSE LET m == CHOOSE k \in S : \A j \in S : BytesLe(j, k)
         IN  <<m>> \o SortedKeysDescending(S \ {m})

\* The byte strings of a set in ascending order
RECURSIVE SortedKeys(_)
SortedKeys(S) ==
    IF S = {} THEN <<>>
    ELSE LET m == CHOOSE k \in S : \A j \in S : BytesLe(k, j)
         IN  <<m>> \o SortedKeys(S \ {m})

\* The entries (key, value) of the map within the bounds, ascending by key
EntriesIn(m, lo, hi) ==
    LET keys == SortedKeys({k \in Keys(m) : InBounds(k, lo, hi)})
    IN  [i \in 1..Len(keys) |-> <<keys[i], m.map[keys[i]]>>]

\* BTreeMap::range refuses these bounds: start after end, or start and end
\* equal and both excluded
BadRange(lo, hi) ==
    /\ lo.kind # "Unbounded"
    /\ hi.kind # "Unbounded"
    /\ \/ BytesLt(hi.bytes, lo.bytes)
       \/ (lo.bytes = hi.bytes /\ lo.kind = "Excluded" /\ hi.kind = "Excluded")

\* BTreeMap::range: the entries in range; on bounds it refuses, a panic,
\* unless the map has no root node yet: then it is not searched at all and
\* the range is empty
BTreeRange(m, range) ==
    IF m.root /\ BadRange(range[1], range[2]) THEN [kind |-> "panic"]
    ELSE [kind |-> "entries",
          entries |-> IF m.root THEN EntriesIn(m, range[1], range[2]) ELSE <<>>]

\* Store::range of the lock-guarded reference store: the entries within the
\* byte bounds, ascending, copied out under the lock
StoreRange(m, range) == [kind |-> "entries", entries |-> EntriesIn(m, range[1], range[2])]

(***************************************************************************)
(* Record types.  A record is [key, data]; its type names the key type.    *)
(* The records are TestRecord's: the payload is the text's UTF-8 bytes.    *)
(***************************************************************************)
\* TestRecord, keyed by u64
TestRecord == [name |-> "TestRecord", key |-> UintT(8)]

\* a record type keyed by (u8, u8), whose try_encode and try_decode refuse
\* an empty payload
PairRec == [name |-> "PairRec", key |-> TupleT(<<UintT(1), UintT(1)>>)]

RecordTypes == {TestRecord, PairRec}

\* A key value as the state holds it, in a record or an argument: the value
\* with its type, since values of different key types do not compare
Typed(t, v) == <<t, v>>
ValueOf(tv) == tv[2]

\* A range bound over key values, as the state holds it
TypedBound(t, b) ==
    IF b.kind = "Unbounded" THEN b ELSE [kind |-> b.kind, v |-> Typed(t, b.v)]

\* A try_encode that loses the payload
RecTryEncodeNoData(rt, rec) == [ok |-> TRUE, key |-> ValueOf(rec.key), value |-> <<>>]

\* The records try_encode refuses
Unencodable(rt, rec) == rt = PairRec /\ rec.data = <<>>

\* Record::try_encode: the key and the payload bytes, or the type's error
RecTryEncode(rt, rec) ==
    IF Unencodable(rt, rec) THEN [ok |-> FALSE, err |-> [kind |-> "EmptyPayload"]]
    ELSE [ok |-> TRUE, key |-> ValueOf(rec.key), value |-> rec.data]

\* Record::try_decode(key, value): TestRecord's text must be UTF-8
RecTryDecode(rt, key, value) ==
    IF rt = PairRec /\ value = <<>> THEN [ok |-> FALSE, err |-> [kind |-> "EmptyPayload"]]
    ELSE IF rt = TestRecord /\ ~ValidUtf8(value)
    THEN [ok |-> FALSE, err |-> [kind |-> "Utf8Error"]]
    ELSE [ok |-> TRUE, rec |-> [key |-> Typed(rt.key, key), data |-> value]]

\* (A, B, ...)::try_decode: the fields left to right, each from the
\* remainder of the one before; the first failure is returned with the
\* field's position
RECURSIVE TryDecodeKey(_, _)
\* a plausible slip: every field decoded from the start of the buffer
RECURSIVE TryDecodeFieldsSameBuffer(_, _, _, _)
TryDecodeFieldsSameBuffer(fields, n, acc, bytes) ==
    IF n > Len(fields) THEN Ok(acc, bytes)
    ELSE LET d == TryDecodeKey(fields[n], bytes)
         IN  IF d.ok THEN TryDecodeFieldsSameBuffer(fields, n + 1, Append(acc, d.value), bytes)
             ELSE Err([kind |-> "TupleDecodeError", field |-> n, err |-> d.err])

RECURSIVE TryDecodeFields(_, _, _, _)
TryDecodeFields(fields, n, acc, bytes) ==
    IF n > Len(fields) THEN Ok(acc, bytes)
    ELSE LET d == TryDecodeKey(fields[n], bytes)
         IN  IF d.ok THEN TryDecodeFields(fields, n + 1, Append(acc, d.value), d.rest)
             ELSE Err([kind |-> "TupleDecodeError", field |-> n, err |-> d.err])

\* DecodeKey::try_decode of key type t
TryDecodeKey(t, bytes) ==
    CASE t.k \in {"uint", "int", "float"} -> TryDecodeNum(t, bytes)
      [] t.k = "string" -> TryDecodeString(bytes)
      [] t.k = "tuple"  -> TryDecodeFields(t.fields, 1, <<>>, bytes)
      [] t.k = "array"  -> TryDecodeArray(t.w, bytes)
      [] t.k = "greedy_bytes"  -> TryDecodeGreedyBytes(bytes)
      [] t.k = "greedy_string" -> TryDecodeGreedyString(bytes)

\* An iterator step that refuses a key with bytes after its encoding
DecodeEntryWholeKey(rt, entry) ==
    LET d == TryDecodeKey(rt.key, entry[1])
    IN  IF ~d.ok THEN [ok |-> FALSE, err |-> [kind |-> "KeyDecodeErr", err |-> d.err]]
        ELSE IF d.rest # <<>>
        THEN [ok |-> FALSE, err |-> [kind |-> "KeyDecodeErr", err |-> [kind |-> "TrailingBytes"]]]
        ELSE LET r == RecTryDecode(rt, d.value, entry[2])
             IN  IF r.ok THEN r
                 ELSE [ok |-> FALSE, err |-> [kind |-> "ValueDecodeError", err |-> r.err]]

\* One step of BTreeStoreIter::next on an entry: the key is decoded and its
\* remainder dropped, then the record; a failure is wrapped in ReadStoreError
DecodeEntry(rt, entry) ==
    LET d == TryDecodeKey(rt.key, entry[1])
    IN  IF ~d.ok THEN [ok |-> FALSE, err |-> [kind |-> "KeyDecodeErr", err |-> d.err]]
        ELSE LET r == RecTryDecode(rt, d.value, entry[2])
             IN  IF r.ok THEN r
                 ELSE [ok |-> FALSE, err |-> [kind |-> "ValueDecodeError", err |-> r.err]]

\* An iterator that ends with the first entry it fails to decode
IterItemsStopAtError(rt, range) ==
    IF range.kind = "panic" THEN [kind |-> "panic"]
    ELSE LET bad == {i \in 1..Len(range.entries) : ~DecodeEntry(rt, range.entries[i]).ok}
             n   == IF bad = {} THEN Len(range.entries)
                    ELSE CHOOSE i \in bad : \A j \in bad : i <= j
         IN  [kind |-> "items",
              items |-> [i \in 1..n |-> DecodeEntry(rt, range.entries[i])]]

\* The items a BTreeStoreIter over these entries yields when run to its end
IterItems(rt, range) ==
    IF range.kind = "panic" THEN [kind |-> "panic"]
    ELSE [kind |-> "items",
          items |-> [i \in 1..Len(range.entries) |-> DecodeEntry(rt, range.entries[i])]]

\* One step of RecordIter::next (lib.rs) on an entry: a key failure is
\* converted into the record's error type, the record's own is passed on
RecordDecodeEntry(rt, entry) ==
    LET d == TryDecodeKey(rt.key, entry[1])
    IN  IF ~d.ok THEN [ok |-> FALSE, err |-> [kind |-> "From", err |-> d.err]]
        ELSE RecTryDecode(rt, d.value, entry[2])

\* The items a RecordIter over these entries yields when run to its end
RecordIterItems(rt, range) ==
    [kind |-> "items",
     items |-> [i \in 1..Len(range.entries) |-> RecordDecodeEntry(rt, range.entries[i])]]

\* The prefix types of a key type: PrefixKey<K> for K, and a tuple's own
PrefixTypesOf(t) == IF t.k = "tuple" THEN DeclaredPrefixTypes(t) ELSE {t}

\* A typed bound of a range and its encoding
EncodeBound(pt, b) ==
    IF b.kind = "Unbounded" THEN Unbounded
    ELSE [kind |-> b.kind, bytes |-> EncodeKey(pt, b.v)]

\* Bounds that keep an included end as it is
ScanRangeBoundsExact(pt, start, end) == <<EncodeBound(pt, start), EncodeBound(pt, end)>>

\* ReadStore::scan_range for &BTreeMap: the byte bounds handed to the map
ScanRangeBounds(pt, start, end) ==
    LET lo == EncodeBound(pt, start)
        hi == CASE end.kind = "Excluded"  -> Excluded(EncodeKey(pt, end.v))
                [] end.kind = "Included"  ->
                       LET c == CarryIncrement(EncodeKey(pt, end.v))
                       IN  IF c.found THEN Excluded(c.bytes) ELSE Unbounded
                [] end.kind = "Unbounded" -> Unbounded
    IN  <<lo, hi>>

\* Record::scan_range (lib.rs): both bounds encoded as they are
RecordScanRangeBounds(pt, start, end) == <<EncodeBound(pt, start), EncodeBound(pt, end)>>

\* ReadStore::scan_prefix for &BTreeMap: [prefix, carry-increment)
ScanPrefixBounds(pt, prefix) ==
    LET start == EncodeKey(pt, prefix)
        c     == CarryIncrement(start)
    IN  <<Included(start), IF c.found THEN Excluded(c.bytes) ELSE Unbounded>>

\* Record::scan_prefix (lib.rs): the carry-increment is an included end
RecordScanPrefixBounds(pt, prefix) ==
    LET start == EncodeKey(pt, prefix)
        c     == CarryIncrement(start)
    IN  <<Included(start), IF c.found THEN Included(c.bytes) ELSE Unbounded>>

\* Store::fetch, Store::insert of the lock-guarded reference store
StoreFetch(m, key) ==
    IF key \in Keys(m) THEN [kind |-> "some", value |-> m.map[key]] ELSE [kind |-> "none"]

StoreInsert(m, key, value) == MapInsert(m, key, value)

(***************************************************************************)
(* Spec: the typed operations on one store.  A call is made when no call   *)
(* is under way (pc = "idle"); it leaves its arguments and result in args  *)
(* and res; Return takes the result away.                                  *)
(***************************************************************************)
\* The store holds at most MaxEntries entries.
MaxEntries == 2

\* At most MaxScanCalls persists and fetches are made while one RecordIter
\* is open.
MaxScanCalls == 1

KeyNumbers == {0, 1, 255, 256, 65535}

KeySample(rt) ==
    IF rt = TestRecord THEN KeyNumbers ELSE {<<n \div 256, n % 256>> : n \in KeyNumbers}

\* The values of prefix type pt that lead a sampled key
PrefixSample(rt, pt) ==
    IF pt = rt.key THEN KeySample(rt)
    ELSE IF pt.k = "tuple" THEN {SubSeq(k, 1, Len(pt.fields)) : k \in KeySample(rt)}
    ELSE {k[1] : k \in KeySample(rt)}

TypedBounds(rt, pt) ==
    {Unbounded} \cup {[kind |-> "Included", v |-> v] : v \in PrefixSample(rt, pt)}
        \cup {[kind |-> "Excluded", v |-> v] : v \in PrefixSample(rt, pt)}

\* The payloads of the records handed to persist: the empty text and two
\* others
Payloads == {<<>>, <<97>>, <<98>>}

Init ==
    /\ pc = "idle"
    /\ args = <<>>
    /\ res = <<>>
    /\ store = EmptyMap

\* A persist that inserts whatever try_encode said
PersistIgnoresEncodeError(rt, rec) ==
    /\ pc = "idle"
    /\ LET key == EncodeKey(rt.key, ValueOf(rec.key))
       IN  /\ key \in Keys(store) \/ Cardinality(Keys(store)) < MaxEntries
           /\ store' = MapInsert(store, key, rec.data)
           /\ res' = [ok |-> TRUE]
    /\ args' = [op |-> "persist", rt |-> rt, rec |-> rec]
    /\ pc' = "done"

\* WriteStore::persist for &mut BTreeMap
Persist(rt, rec) ==
    /\ pc = "idle"
    /\ LET enc == RecTryEncode(rt, rec)
       IN  IF ~enc.ok
           THEN /\ res' = [ok |-> FALSE, err |-> [kind |-> "EncodeError", err |-> enc.err]]
                /\ store' = store
           ELSE LET key == EncodeKey(rt.key, enc.key)
                IN  /\ key \in Keys(store) \/ Cardinality(Keys(store)) < MaxEntries
                    /\ store' = MapInsert(store, key, enc.value)
                    /\ res' = [ok |-> TRUE]
    /\ args' = [op |-> "persist", rt |-> rt, rec |-> rec]
    /\ pc' = "done"

\* Record::persist (lib.rs).  It takes the store by shared reference, so
\* it can also be called while a RecordIter is open: the scan's arguments
\* and iterator stay, and the call is noted with what it returned.
RecordPersist(rt, rec) ==
    /\ pc \in {"idle", "riter"}
    /\ pc = "riter" => res.ncalls < MaxScanCalls
    /\ LET enc == RecTryEncode(rt, rec)
           out == IF enc.ok THEN [ok |-> TRUE] ELSE [ok |-> FALSE, err |-> enc.err]
           call == [op |-> "record_persist", rt |-> rt, rec |-> rec]
       IN  /\ IF ~enc.ok
              THEN store' = store
              ELSE LET key == EncodeKey(rt.key, enc.key)
                   IN  /\ key \in Keys(store) \/ Cardinality(Keys(store)) < MaxEntries
                       /\ store' = StoreInsert(store, key, enc.value)
           /\ IF pc = "idle"
              THEN /\ res' = out
                   /\ args' = call
                   /\ pc' = "done"
              ELSE /\ res' = [res EXCEPT !.ncalls = @ + 1, !.last = call @@ [out |-> out]]
                   /\ UNCHANGED <<args, pc>>

\* WriteStore::remove for &mut BTreeMap
Remove(rt, key) ==
    /\ pc = "idle"
    /\ store' = MapRemove(store, EncodeKey(rt.key, key))
    /\ res' = [ok |-> TRUE]
    /\ args' = [op |-> "remove", rt |-> rt, key |-> Typed(rt.key, key)]
    /\ pc' = "done"

\* A fetch that decodes the key it finds in the store
FetchResultDecodingKey(m, rt, key) ==
    LET key_data == EncodeKey(rt.key, key)
    IN  IF key_data \notin Keys(m) THEN [kind |-> "none"]
        ELSE LET k == TryDecodeKey(rt.key, key_data)
             IN  IF ~k.ok
                 THEN [kind |-> "err", err |-> [kind |-> "KeyDecodeErr", err |-> k.err]]
                 ELSE LET d == RecTryDecode(rt, k.value, m.map[key_data])
                      IN  IF d.ok THEN [kind |-> "some", rec |-> d.rec]
                          ELSE [kind |-> "err",
                                err  |-> [kind |-> "ValueDecodeError", err |-> d.err]]

\* ReadStore::fetch for &BTreeMap
FetchResult(m, rt, key) ==
    LET key_data == EncodeKey(rt.key, key)
    IN  IF key_data \notin Keys(m) THEN [kind |-> "none"]
        ELSE LET d == RecTryDecode(rt, key, m.map[key_data])
             IN  IF d.ok THEN [kind |-> "some", rec |-> d.rec]
                 ELSE [kind |-> "err", err |-> [kind |-> "ValueDecodeError", err |-> d.err]]

Fetch(rt, key) ==
    /\ pc = "idle"
    /\ res' = FetchResult(store, rt, key)
    /\ args' = [op |-> "fetch", rt |-> rt, key |-> Typed(rt.key, key)]
    /\ pc' = "done"
    /\ UNCHANGED store

\* Record::fetch (lib.rs)
RecordFetchResult(m, rt, key) ==
    LET got == StoreFetch(m, EncodeKey(rt.key, key))
    IN  IF got.kind = "none" THEN [kind |-> "none"]
        ELSE LET d == RecTryDecode(rt, key, got.value)
             IN  IF d.ok THEN [kind |-> "some", rec |-> d.rec]
                 ELSE [kind |-> "err", err |-> d.err]

\* Record::fetch as an operation.  Like persist it takes the store by shared
\* reference and can be called while a RecordIter is open.
RecordFetch(rt, key) ==
    /\ pc \in {"idle", "riter"}
    /\ pc = "riter" => res.ncalls < MaxScanCalls
    /\ LET out  == RecordFetchResult(store, rt, key)
           call == [op |-> "record_fetch", rt |-> rt, key |-> Typed(rt.key, key)]
       IN  IF pc = "idle"
           THEN /\ res' = out
                /\ args' = call
                /\ pc' = "done"
           ELSE /\ res' = [res EXCEPT !.ncalls = @ + 1, !.last = call @@ [out |-> out]]
                /\ UNCHANGED <<args, pc>>
    /\ UNCHANGED store

\* ReadStore::scan for &BTreeMap, the iterator run to its end
Scan(rt) ==
    /\ pc = "idle"
    /\ res' = IterItems(rt, BTreeRange(store, <<Unbounded, Unbounded>>))
    /\ args' = [op |-> "scan", rt |-> rt]
    /\ pc' = "done"
    /\ UNCHANGED store

\* RecordIter { iter: store.range(..) }: the entries Store::range has
\* returned and not yet handed out, the items yielded so far, how many
\* persists and fetches were called since the opening, and the last
RecordIterOpen(range) ==
    [kind |-> "riter", entries |-> range.entries, items |-> <<>>, ncalls |-> 0, last |-> <<>>]

\* Record::scan (lib.rs): Store::range is called and the lazy RecordIter
\* returned; `at` keeps the store as it was at the call
RecordScan(rt) ==
    /\ pc = "idle"
    /\ res' = RecordIterOpen(StoreRange(store, <<Unbounded, Unbounded>>))
    /\ args' = [op |-> "record_scan", rt |-> rt, at |-> store]
    /\ pc' = "riter"
    /\ UNCHANGED store

\* RecordIter::next (lib.rs): the next entry of what Store::range returned
\* is decoded and yielded; None when there is none left
RecordIterNext ==
    /\ pc = "riter"
    /\ IF res.entries = <<>>
       THEN /\ pc' = "done"
            /\ res' = [kind |-> "items", items |-> res.items]
       ELSE /\ pc' = pc
            /\ res' = [res EXCEPT
                          !.entries = Tail(@),
                          !.items = Append(@, RecordDecodeEntry(args.rt, Head(res.entries)))]
    /\ UNCHANGED <<args, store>>

\* ReadStore::scan_range for &BTreeMap
ScanRange(rt, pt, start, end) ==
    /\ pc = "idle"
    /\ res' = IterItems(rt, BTreeRange(store, ScanRangeBounds(pt, start, end)))
    /\ args' = [op |-> "scan_range", rt |-> rt, pt |-> pt,
                start |-> TypedBound(pt, start), end |-> TypedBound(pt, end)]
    /\ pc' = "done"
    /\ UNCHANGED store

\* Record::scan_range (lib.rs): the RecordIter is opened on the range
RecordScanRange(rt, pt, start, end) ==
    /\ pc = "idle"
    /\ res' = RecordIterOpen(StoreRange(store, RecordScanRangeBounds(pt, start, end)))
    /\ args' = [op |-> "record_scan_range", rt |-> rt, pt |-> pt,
                start |-> TypedBound(pt, start), end |-> TypedBound(pt, end),
                at |-> store]
    /\ pc' = "riter"
    /\ UNCHANGED store

\* ReadStore::scan_prefix for &BTreeMap
ScanPrefix(rt, pt, prefix) ==
    /\ pc = "idle"
    /\ res' = IterItems(rt, BTreeRange(store, ScanPrefixBounds(pt, prefix)))
    /\ args' = [op |-> "scan_prefix", rt |-> rt, pt |-> pt, prefix |-> Typed(pt, prefix)]
    /\ pc' = "done"
    /\ UNCHANGED store

\* Record::scan_prefix (lib.rs): the RecordIter is opened on the range
RecordScanPrefix(rt, pt, prefix) ==
    /\ pc = "idle"
    /\ res' = RecordIterOpen(StoreRange(store, RecordScanPrefixBounds(pt, prefix)))
    /\ args' = [op |-> "record_scan_prefix", rt |-> rt, pt |-> pt,
                prefix |-> Typed(pt, prefix), at |-> store]
    /\ pc' = "riter"
    /\ UNCHANGED store

\* ReadStore::scan for &'a BTreeMap, the iterator consumed item by item.
\* The BTreeStoreIter<'a> borrows the map for as long as it lives and reads
\* it as it goes; persist and remove need &'a mut BTreeMap, which the
\* borrow rules out until the iterator is gone: they start at "idle" only.
IterOpen(rt) ==
    /\ pc = "idle"
    /\ pc' = "iter"
    /\ args' = [op |-> "scan_iter", rt |-> rt]
    /\ res' = [kind |-> "iter", items |-> <<>>, last |-> [kind |-> "none"]]
    /\ UNCHANGED store

\* The entries the range has not passed yet
Remaining(m, last) ==
    {k \in Keys(m) : last.kind = "none" \/ BytesLt(last.key, k)}

\* A next that takes the greatest remaining entry
IterNextFromEnd ==
    /\ pc = "iter"
    /\ LET rem == Remaining(store, res.last)
       IN  IF rem = {}
           THEN /\ pc' = "done"
                /\ res' = [kind |-> "items", items |-> res.items]
           ELSE LET k == CHOOSE k \in rem : \A j \in rem : BytesLe(j, k)
                IN  /\ pc' = "iter"
                    /\ res' = [kind  |-> "iter",
                               items |-> Append(res.items,
                                                DecodeEntry(args.rt, <<k, store.map[k]>>)),
                               last  |-> [kind |-> "some", key |-> k]]
    /\ UNCHANGED <<args, store>>

\* BTreeStoreIter::next: the next entry of the map's range is decoded, or
\* the iterator ends
IterNext ==
    /\ pc = "iter"
    /\ LET rem == Remaining(store, res.last)
       IN  IF rem = {}
           THEN /\ pc' = "done"
                /\ res' = [kind |-> "items", items |-> res.items]
           ELSE LET k == CHOOSE k \in rem : \A j \in rem : BytesLe(k, j)
                IN  /\ pc' = "iter"
                    /\ res' = [kind  |-> "iter",
                               items |-> Append(res.items,
                                                DecodeEntry(args.rt, <<k, store.map[k]>>)),
                               last  |-> [kind |-> "some", key |-> k]]
    /\ UNCHANGED <<args, store>>

\* ReadStore::scan, scan_range and scan_prefix for
\* &sled::transaction::TransactionalTree: unimplemented!(), whatever the
\* arguments and the tree
TxScan(rt) ==
    /\ pc = "idle"
    /\ res' = [kind |-> "panic"]
    /\ args' = [op |-> "tx_scan", rt |-> rt]
    /\ pc' = "done"
    /\ UNCHANGED store

TxScanRange(rt, pt, start, end) ==
    /\ pc = "idle"
    /\ res' = [kind |-> "panic"]
    /\ args' = [op |-> "tx_scan_range", rt |-> rt, pt |-> pt,
                start |-> TypedBound(pt, start), end |-> TypedBound(pt, end)]
    /\ pc' = "done"
    /\ UNCHANGED store

TxScanPrefix(rt, pt, prefix) ==
    /\ pc = "idle"
    /\ res' = [kind |-> "panic"]
    /\ args' = [op |-> "tx_scan_prefix", rt |-> rt, pt |-> pt, prefix |-> Typed(pt, prefix)]
    /\ pc' = "done"
    /\ UNCHANGED store

\* The call returns to its caller
Return ==
    /\ pc = "done"
    /\ pc' = "idle"
    /\ args' = <<>>
    /\ res' = <<>>
    /\ UNCHANGED store

Next ==
    \/ \E rt \in RecordTypes : \E k \in KeySample(rt), d \in Payloads :
          \/ Persist(rt, [key |-> Typed(rt.key, k), data |-> d])
          \/ RecordPersist(rt, [key |-> Typed(rt.key, k), data |-> d])
    \/ \E rt \in RecordTypes : \E k \in KeySample(rt) :
          \/ Remove(rt, k)
          \/ Fetch(rt, k)
          \/ RecordFetch(rt, k)
    \/ \E rt \in RecordTypes :
          \/ Scan(rt)
          \/ TxScan(rt)
          \/ IterOpen(rt)
    \/ IterNext
    \/ \E rt \in RecordTypes : \E pt \in PrefixTypesOf(rt.key) :
          \E start \in TypedBounds(rt, pt), end \in TypedBounds(rt, pt) :
              ScanRange(rt, pt, start, end)
    \/ \E rt \in RecordTypes : \E pt \in PrefixTypesOf(rt.key) :
          \E prefix \in PrefixSample(rt, pt) :
              \/ ScanPrefix(rt, pt, prefix)
              \/ TxScanPrefix(rt, pt, prefix)
    \/ \E rt \in RecordTypes : \E pt \in PrefixTypesOf(rt.key) :
          \E start \in TypedBounds(rt, pt) : TxScanRange(rt, pt, start, Unbounded)
    \/ Return

Spec == Init /\ [][Next]_vars

(***************************************************************************)
(* SpecRecord: the scans of lib.rs, whose RecordIter is consumed item by    *)
(* item while persists and fetches go on, beside the operations of         *)
(* store.rs, on a store of fewer keys.                                     *)
(***************************************************************************)
RecordKeySample(rt) == IF rt = TestRecord THEN {0, 1} ELSE {<<0, 0>>, <<0, 1>>, <<255, 255>>}

\* The values of prefix type pt that lead a key of RecordKeySample
RecordPrefixSample(rt, pt) ==
    IF pt = rt.key THEN RecordKeySample(rt)
    ELSE IF pt.k = "tuple" THEN {SubSeq(k, 1, Len(pt.fields)) : k \in RecordKeySample(rt)}
    ELSE {k[1] : k \in RecordKeySample(rt)}

RecordTypedBounds(rt, pt) ==
    {Unbounded} \cup {[kind |-> "Included", v |-> v] : v \in RecordPrefixSample(rt, pt)}
        \cup {[kind |-> "Excluded", v |-> v] : v \in RecordPrefixSample(rt, pt)}

RecordPayloads == {<<>>, <<97>>}

RecordNext ==
    \/ \E rt \in RecordTypes : \E k \in RecordKeySample(rt), d \in RecordPayloads :
          \/ Persist(rt, [key |-> Typed(rt.key, k), data |-> d])
          \/ RecordPersist(rt, [key |-> Typed(rt.key, k), data |-> d])
    \/ \E rt \in RecordTypes : \E k \in RecordKeySample(rt) :
          \/ Remove(rt, k)
          \/ Fetch(rt, k)
          \/ RecordFetch(rt, k)
    \/ \E rt \in RecordTypes :
          \/ Scan(rt)
          \/ RecordScan(rt)
          \/ IterOpen(rt)
    \/ IterNext
    \/ RecordIterNext
    \/ \E rt \in RecordTypes : \E pt \in PrefixTypesOf(rt.key) :
          \E start \in RecordTypedBounds(rt, pt), end \in RecordTypedBounds(rt, pt) :
              \/ ScanRange(rt, pt, start, end)
              \/ RecordScanRange(rt, pt, start, end)
    \/ \E rt \in RecordTypes : \E pt \in PrefixTypesOf(rt.key) :
          \E prefix \in RecordPrefixSample(rt, pt) :
              \/ ScanPrefix(rt, pt, prefix)
              \/ RecordScanPrefix(rt, pt, prefix)
    \/ Return

SpecRecord == Init /\ [][RecordNext]_vars

\* The store as it was when the operation was called: a RecordIter is
\* consumed after the call, and the store may have been written since
StoreAtCall == IF "at" \in DOMAIN args THEN args.at ELSE store

(***************************************************************************)
(* Claims about the scans.                                                 *)
(***************************************************************************)
\* The entries whose key has the given bytes as a prefix, ascending by key
EntriesWithPrefix(m, prefix) ==
    LET keys == SortedKeys({k \in Keys(m) : IsPrefix(prefix, k)})
    IN  [i \in 1..Len(keys) |-> <<keys[i], m.map[keys[i]]>>]

IsPrefixScan == pc = "done" /\ args.op \in {"scan_prefix", "record_scan_prefix"}

\* What the called scan's iterator makes of these entries
ItemsOf(op, rt, entries) ==
    IF op = "scan_prefix" THEN IterItems(rt, [kind |-> "entries", entries |-> entries])
    ELSE RecordIterItems(rt, [kind |-> "entries", entries |-> entries])

\* C9: after any persists and removes, scan_prefix(store, p) yields exactly
\* the stored entries whose encoded key has encode(p) as a byte-prefix: the
\* upper bound U is excluded, so a stored key equal to U is not returned.
C9_PrefixScanExact ==
    IsPrefixScan =>
        res = ItemsOf(args.op, args.rt,
                      EntriesWithPrefix(StoreAtCall, EncodeKey(args.pt, ValueOf(args.prefix))))

\* The numbers of a set in ascending order
RECURSIVE SortedNums(_)
SortedNums(S) ==
    IF S = {} THEN <<>>
    ELSE LET m == CHOOSE k \in S : \A j \in S : k <= j
         IN  <<m>> \o SortedNums(S \ {m})

\* A typed range of integers contains k (RangeBounds::contains)
RangeContains(start, end, k) ==
    /\ CASE start.kind = "Included"  -> ValueOf(start.v) <= k
         [] start.kind = "Excluded"  -> ValueOf(start.v) < k
         [] start.kind = "Unbounded" -> TRUE
    /\ CASE end.kind = "Included"  -> k <= ValueOf(end.v)
         [] end.kind = "Excluded"  -> k < ValueOf(end.v)
         [] end.kind = "Unbounded" -> TRUE

StartLeEnd(start, end) ==
    (start.kind # "Unbounded" /\ end.kind # "Unbounded") => ValueOf(start.v) <= ValueOf(end.v)

\* The store holds records of type rt only: every key is an encoded rt key
HoldsOnly(m, rt) ==
    \A kb \in Keys(m) : \E k \in KeySample(rt) : kb = EncodeKey(rt.key, k)

\* The TestRecords in the store with a key in the range, ascending by key
RecordsInRange(m, start, end) ==
    LET keys == SortedNums({k \in {FromBeBytesU(kb) : kb \in Keys(m)} :
                               RangeContains(start, end, k)})
    IN  [i \in 1..Len(keys) |->
            [ok |-> TRUE,
             rec |-> [key |-> Typed(TestRecord.key, keys[i]),
                      data |-> m.map[EncodeUint(8, keys[i])]]]]

IsUintRangeScan ==
    /\ pc = "done"
    /\ args.op \in {"scan_range", "record_scan_range"}
    /\ args.rt = TestRecord
    /\ HoldsOnly(StoreAtCall, TestRecord)

\* C10: for a record type keyed by a fixed-width unsigned integer and a
\* store reached by persists, scan_range(store, r) with start <= end yields
\* exactly the records whose key r contains, ascending by key: an included
\* end returns the record at the end key, an excluded end does not.
C10_RangeScanExact ==
    (IsUintRangeScan /\ StartLeEnd(args.start, args.end)) =>
        res = [kind |-> "items", items |-> RecordsInRange(StoreAtCall, args.start, args.end)]

(***************************************************************************)
(* Claims about persist, fetch and remove.                                 *)
(***************************************************************************)
\* A persist has just succeeded
PersistDone == pc = "done" /\ args.op \in {"persist", "record_persist"} /\ res.ok

\* What fetch of this key, and what an unrestricted scan, return on the
\* store as it is, through the same file as the call
FetchNow(op, rt, key) ==
    IF op \in {"persist", "remove", "fetch"} THEN FetchResult(store, rt, key)
    ELSE RecordFetchResult(store, rt, key)

ScanNow(op, rt) ==
    IF op \in {"persist", "remove", "scan"}
    THEN IterItems(rt, BTreeRange(store, <<Unbounded, Unbounded>>))
    ELSE RecordIterItems(rt, StoreRange(store, <<Unbounded, Unbounded>>))

\* C11: after persist(record) succeeds, fetch(store, record.key) returns a
\* record equal to the one persisted, and when it is the only record in the
\* store, scan yields exactly one item, that record.
C11_PersistFetchScan ==
    (PersistDone /\ args.op = "persist") =>
        /\ FetchNow(args.op, args.rt, ValueOf(args.rec.key)) = [kind |-> "some", rec |-> args.rec]
        /\ Cardinality(Keys(store)) = 1 =>
               ScanNow(args.op, args.rt) =
                   [kind |-> "items", items |-> <<[ok |-> TRUE, rec |-> args.rec]>>]

\* A record was persisted into a store that then holds it alone
C11_Witness ==
    /\ PersistDone
    /\ args.op = "persist"
    /\ args.rt = TestRecord
    /\ Cardinality(Keys(store)) = 1
    /\ FetchResult(store, args.rt, ValueOf(args.rec.key)) = [kind |-> "some", rec |-> args.rec]

\* This step is a persist that succeeds
PersistStep ==
    /\ pc = "idle"
    /\ pc' = "done"
    /\ args'.op \in {"persist", "record_persist"}
    /\ res'.ok

\* This step is a persist of lib.rs called while a RecordIter is open
ScanPersistStep ==
    /\ pc = "riter"
    /\ pc' = "riter"
    /\ res'.ncalls = res.ncalls + 1
    /\ res'.last.op = "record_persist"

\* That persist: its record type, its record and what it returned
ScanPersistCall == res'.last

\* The step leaves the store as an upsert of the record does
Upserted(rt, rec) ==
    LET key == EncodeKey(rt.key, ValueOf(rec.key))
    IN  /\ Keys(store') = Keys(store) \cup {key}
        /\ store'.map[key] = rec.data
        /\ \A k \in Keys(store) \ {key} : store'.map[k] = store.map[k]
        /\ (key \in Keys(store) /\ store.map[key] = rec.data) => store' = store

\* C12: persist is an upsert: the store then holds one entry for the
\* record's encoded key, carrying the payload just persisted, and every
\* other entry as before; persisting a record the store already holds
\* leaves the store as it is.  A persist called while a scan of lib.rs is
\* being consumed does the same.
C12_PersistUpsert ==
    [][/\ PersistStep => Upserted(args'.rt, args'.rec)
       /\ (ScanPersistStep /\ ScanPersistCall.out.ok) =>
              Upserted(ScanPersistCall.rt, ScanPersistCall.rec)]_vars

\* A persist has left a second entry next to one with another payload
C12_Witness ==
    /\ PersistDone
    /\ Cardinality(Keys(store)) = 2
    /\ \E k \in Keys(store) : store.map[k] # args.rec.data

\* This step is a persist of a record whose try_encode fails
FailedEncodeStep ==
    /\ pc = "idle"
    /\ pc' = "done"
    /\ args'.op \in {"persist", "record_persist"}
    /\ Unencodable(args'.rt, args'.rec)

\* C13: when a record's try_encode fails, persist returns an encode error
\* and the store is left exactly as it was before the call, also when the
\* persist is called while a scan of lib.rs is being consumed.
C13_EncodeFailureLeavesStore ==
    [][/\ FailedEncodeStep =>
              /\ store' = store
              /\ ~res'.ok
              /\ res'.err = IF args'.op = "persist"
                            THEN [kind |-> "EncodeError", err |-> [kind |-> "EmptyPayload"]]
                            ELSE [kind |-> "EmptyPayload"]
       /\ (ScanPersistStep /\ Unencodable(ScanPersistCall.rt, ScanPersistCall.rec)) =>
              /\ store' = store
              /\ ~ScanPersistCall.out.ok
              /\ ScanPersistCall.out.err = [kind |-> "EmptyPayload"]]_vars

\* A persist has returned an encode error on a store that holds entries
C13_Witness ==
    /\ pc = "done"
    /\ args.op \in {"persist", "record_persist"}
    /\ ~res.ok
    /\ Unencodable(args.rt, args.rec)
    /\ Keys(store) # {}

\* This step is a remove
RemoveStep == pc = "idle" /\ pc' = "done" /\ args'.op = "remove"

\* The items of a scan that are records with this key
ItemsWithKey(scan, tkey) ==
    {i \in DOMAIN scan.items : scan.items[i].ok /\ scan.items[i].rec.key = tkey}

\* The entries of the map, ascending by key, whose byte key begins with
\* these bytes and whose value the record type decodes: the entries a scan
\* through rt turns into a record with the key these bytes encode
EntriesUnderKey(m, rt, bytes) ==
    LET all == EntriesIn(m, Unbounded, Unbounded)
    IN  {i \in DOMAIN all :
            /\ IsPrefix(bytes, all[i][1])
            /\ RecTryDecode(rt, <<>>, all[i][2]).ok}

\* A key enters the store only by a persist of that key, and fetch answers
\* None exactly when the encoded key is not in the store
AbsentUntilPersisted ==
    /\ \A k \in Keys(store') \ Keys(store) :
           LET call == IF pc' = "riter" THEN res'.last ELSE args'
           IN  /\ pc' = "riter" => (pc = "riter" /\ res'.ncalls = res.ncalls + 1)
               /\ pc' # "riter" => args'.op \in {"persist", "record_persist"}
               /\ k = EncodeKey(call.rt.key, ValueOf(call.rec.key))
    /\ (pc = "idle" /\ pc' = "done" /\ args'.op = "fetch") =>
           (res'.kind = "none" <=>
               EncodeKey(args'.rt.key, ValueOf(args'.key)) \notin Keys(store'))

StoreScanDone ==
    /\ pc = "done"
    /\ args.op \in {"scan", "scan_range", "scan_prefix"}
    /\ res.kind = "items"

\* The encoded key of the i-th item of a scan of records of type rt
ItemKey(rt, items, i) == EncodeKey(rt.key, ValueOf(items[i].rec.key))

\* The byte strings of a set as the one strictly ascending sequence of them
AscendingKeys(S) ==
    CHOOSE f \in [1..Cardinality(S) -> S] :
        \A i \in 1..Cardinality(S) : \A j \in 1..Cardinality(S) :
            i < j => BytesLt(f[i], f[j])

\* C15, as stated: in every reachable store state scan, scan_range and
\* scan_prefix yield their items in strictly ascending byte-lexicographic
\* order of the encoded keys with no key appearing twice, and the
\* unrestricted scan yields one item for every entry in the store.
C15_ItemKeysAscending ==
    StoreScanDone =>
        /\ args.op = "scan" => Len(res.items) = Cardinality(Keys(store))
        /\ \A i \in DOMAIN res.items : \A j \in DOMAIN res.items :
               (i < j /\ res.items[i].ok /\ res.items[j].ok) =>
                   BytesLt(ItemKey(args.rt, res.items, i), ItemKey(args.rt, res.items, j))

\* C15, amended: in every reachable store state scan, scan_range and
\* scan_prefix yield their items in strictly ascending byte-lexicographic
\* order of the stored byte keys, no stored key twice: the items are, one by
\* one, what the iterator makes of stored entries whose byte keys strictly
\* ascend, and the unrestricted scan yields one item for every entry in the
\* store.  The key of a record yielded encodes to the leading bytes of its
\* entry's key, so two records of one scan can carry the same key.
C15_ScanAscending ==
    StoreScanDone =>
        \E S \in SUBSET Keys(store) :
            LET ks == AscendingKeys(S)
                n  == Cardinality(S)
            IN  /\ Len(res.items) = n
                /\ \A i \in 1..n : \A j \in 1..n : i < j => BytesLt(ks[i], ks[j])
                /\ \A i \in 1..n :
                       /\ res.items[i] = DecodeEntry(args.rt, <<ks[i], store.map[ks[i]]>>)
                       /\ res.items[i].ok => IsPrefix(ItemKey(args.rt, res.items, i), ks[i])
                /\ args.op = "scan" => S = Keys(store)

\* An unrestricted scan of a store written through both record types has
\* yielded two records, made from two entries, with the same typed key
C15_Witness ==
    /\ StoreScanDone
    /\ args.op = "scan"
    /\ ~HoldsOnly(store, args.rt)
    /\ Len(res.items) = 2
    /\ res.items[1].ok
    /\ res.items[2].ok
    /\ res.items[1].rec.key = res.items[2].rec.key

\* An unrestricted scan of either file has returned
AnyScanDone == pc = "done" /\ args.op \in {"scan", "record_scan"} /\ res.kind = "items"

\* The entries of the store, ascending by key
AllEntries(m) == EntriesIn(m, Unbounded, Unbounded)

\* The entry decodes as a record of type rt: its key, then its value
KeyDecodes(rt, entry) == TryDecodeKey(rt.key, entry[1]).ok
ValueDecodes(rt, entry) ==
    RecTryDecode(rt, TryDecodeKey(rt.key, entry[1]).value, entry[2]).ok

\* C16: a scan yields exactly one item per store entry, each independently
\* Ok(record) or an error: an entry whose key or value fails to decode
\* gives an error item at its position, and every later entry is still
\* yielded.
C16_OneItemPerEntry ==
    AnyScanDone =>
        LET rt      == args.rt
            entries == AllEntries(StoreAtCall)
        IN  /\ Len(res.items) = Len(entries)
            /\ \A i \in 1..Len(entries) :
                   LET e  == entries[i]
                       it == res.items[i]
                   IN  IF KeyDecodes(rt, e) /\ ValueDecodes(rt, e)
                       THEN /\ it.ok
                            /\ it.rec = [key  |-> Typed(rt.key, TryDecodeKey(rt.key, e[1]).value),
                                         data |-> e[2]]
                       ELSE ~it.ok

\* A scan has yielded an error item for an entry whose key does not decode
\* and, after it, the record of the next entry
C16_Witness ==
    /\ AnyScanDone
    /\ args.op = "scan"
    /\ Len(res.items) = 2
    /\ ~res.items[1].ok
    /\ res.items[1].err.kind = "KeyDecodeErr"
    /\ res.items[2].ok

\* A scan was requested of the transactional backend
TxScanDone == pc = "done" /\ args.op \in {"tx_scan", "tx_scan_range", "tx_scan_prefix"}

\* C17: scan, scan_range and scan_prefix on the transactional backend
\* return a "not supported" error value to the caller: no crash, no empty
\* result.
C17_TxScanNotSupported ==
    TxScanDone => res.kind = "err" /\ res.err.kind = "NotSupported"

\* A range scan has returned, or has not
RangeScanDone == pc = "done" /\ args.op \in {"scan_range", "record_scan_range"}

\* C18: scan_range returns a sequence, possibly empty, for every pair of
\* typed bounds, a start above the end and equal excluded bounds included:
\* no combination of bounds ends the process.
C18_RangeScanNeverPanics ==
    RangeScanDone => res.kind = "items"

\* The iterator of a scan is alive: created, not yet run to its end
IterLive == pc = "iter"

\* The RecordIter of an unrestricted lib.rs scan is alive
RecordIterLive == pc = "riter" /\ args.op = "record_scan"

\* C19: the items a scan yields are fixed when the scan is created.  While
\* the iterator of store.rs lives no step changes the store; while the
\* RecordIter of lib.rs lives a persist may.  Either way the items yielded
\* so far are at every point the first items of the scan of the store as it
\* was at the call, and all of them once the iterator ends.
C19_ScanItemsFixed ==
    [][/\ IterLive =>
              LET all == IterItems(args.rt, BTreeRange(store, <<Unbounded, Unbounded>>)).items
              IN  /\ store' = store
                  /\ args' = args
                  /\ Len(res'.items) <= Len(all)
                  /\ res'.items = SubSeq(all, 1, Len(res'.items))
                  /\ pc' = "done" => res'.items = all
       /\ RecordIterLive =>
              LET all == RecordIterItems(args.rt,
                             StoreRange(args.at, <<Unbounded, Unbounded>>)).items
              IN  /\ args' = args
                  /\ Len(res'.items) <= Len(all)
                  /\ res'.items = SubSeq(all, 1, Len(res'.items))
                  /\ pc' = "done" => res'.items = all]_vars

\* A RecordIter opened on a store of one entry has been run to its end
\* after a persist added a second entry, and has yielded one item
C19_Witness ==
    /\ pc = "done"
    /\ args.op = "record_scan"
    /\ Cardinality(Keys(args.at)) = 1
    /\ Cardinality(Keys(store)) = 2
    /\ Len(res.items) = 1

(***************************************************************************)
(* Claims about the end bound of a range scan.                             *)
(***************************************************************************)
\* The bound as the caller gave it
RawBound(b) == IF b.kind = "Unbounded" THEN b ELSE [kind |-> b.kind, v |-> ValueOf(b.v)]

\* A key is at or after the start bound, the bound passed through encoded
AfterStart(pt, start, k) ==
    CASE start.kind = "Included"  -> BytesLe(EncodeKey(pt, ValueOf(start.v)), k)
      [] start.kind = "Excluded"  -> BytesLt(EncodeKey(pt, ValueOf(start.v)), k)
      [] start.kind = "Unbounded" -> TRUE

\* A key is before the end bound, an included end matching exactly
BeforeEndExact(pt, end, k) ==
    CASE end.kind = "Included"  -> BytesLe(k, EncodeKey(pt, ValueOf(end.v)))
      [] end.kind = "Excluded"  -> BytesLt(k, EncodeKey(pt, ValueOf(end.v)))
      [] end.kind = "Unbounded" -> TRUE

\* A key is before the end bound, an included end taking in what is nested
\* under it
BeforeEndNested(pt, end, k) ==
    \/ BeforeEndExact(pt, end, k)
    \/ end.kind = "Included" /\ IsPrefix(EncodeKey(pt, ValueOf(end.v)), k)

\* The entries with the chosen keys, ascending by key
EntriesOf(m, keys) ==
    LET sorted == SortedKeys(keys)
    IN  [i \in 1..Len(sorted) |-> <<sorted[i], m.map[sorted[i]]>>]

\* What the iterator of the called file makes of the entries
RangeItems(op, rt, entries) ==
    IF op = "scan_range" THEN IterItems(rt, [kind |-> "entries", entries |-> entries])
    ELSE RecordIterItems(rt, [kind |-> "entries", entries |-> entries])

RangeScanReturned == RangeScanDone /\ res.kind = "items"

\* C20, as stated: in scan_range an included end bound e matches exactly
\* on the encoded bytes: the scan, where it returns, yields the stored keys
\* from the start bound up to encode(e) and none above it, so keys nested
\* under e are not returned; start bounds and excluded end bounds pass
\* through encoded.
C20_IncludedEndExactMatch ==
    RangeScanReturned =>
        res = RangeItems(args.op, args.rt,
                         EntriesOf(StoreAtCall, {k \in Keys(StoreAtCall) :
                                               /\ AfterStart(args.pt, args.start, k)
                                               /\ BeforeEndExact(args.pt, args.end, k)}))

\* The first byte string past the end bound as store.rs takes it: encode(e)
\* for an excluded end e, the carry-increment of encode(e) for an included
\* one; none for no end bound and for an included end of 0xFF bytes only
PastEnd(pt, end) ==
    CASE end.kind = "Excluded"  -> [found |-> TRUE, bytes |-> EncodeKey(pt, ValueOf(end.v))]
      [] end.kind = "Included"  -> CarryIncrement(EncodeKey(pt, ValueOf(end.v)))
      [] end.kind = "Unbounded" -> [found |-> FALSE]

\* scan_range of store.rs does not return on these bounds: the map has held
\* an entry and the start is past the end, or at it and excluded
RangeRefused(m, pt, start, end) ==
    /\ m.root
    /\ start.kind # "Unbounded"
    /\ PastEnd(pt, end).found
    /\ LET s == EncodeKey(pt, ValueOf(start.v))
           u == PastEnd(pt, end).bytes
       IN  BytesLt(u, s) \/ (u = s /\ start.kind = "Excluded")

\* C20, amended.  Record::scan_range of lib.rs matches an included end e
\* exactly: it yields the stored keys within the start bound that are at
\* most encode(e).  ReadStore::scan_range for &BTreeMap takes an included
\* end e as the excluded end carry_increment(encode(e)): it yields the
\* stored keys within the start bound that are at most encode(e) or have
\* encode(e) as a prefix, so keys nested under e are returned, and it
\* panics, once the map has held an entry, when the start is past that
\* excluded end, or at it and excluded.  Start bounds and excluded end
\* bounds pass through encoded.
C20_IncludedEndByFile ==
    RangeScanDone =>
        /\ args.op = "scan_range" =>
               IF RangeRefused(store, args.pt, args.start, args.end)
               THEN res = [kind |-> "panic"]
               ELSE res = IterItems(args.rt,
                               [kind    |-> "entries",
                                entries |-> EntriesOf(store, {k \in Keys(store) :
                                                /\ AfterStart(args.pt, args.start, k)
                                                /\ BeforeEndNested(args.pt, args.end, k)})])
        /\ args.op = "record_scan_range" =>
               res = RecordIterItems(args.rt,
                         [kind    |-> "entries",
                          entries |-> EntriesOf(StoreAtCall, {k \in Keys(StoreAtCall) :
                                          /\ AfterStart(args.pt, args.start, k)
                                          /\ BeforeEndExact(args.pt, args.end, k)})])

\* A range scan of store.rs with an included end that is a strict prefix of
\* composite keys has returned a key nested under it
C20_Witness ==
    /\ RangeScanReturned
    /\ args.op = "scan_range"
    /\ args.rt = PairRec
    /\ args.end.kind = "Included"
    /\ args.pt # args.rt.key
    /\ HoldsOnly(store, PairRec)
    /\ \E i \in DOMAIN res.items :
           /\ res.items[i].ok
           /\ IsPrefix(EncodeKey(args.pt, ValueOf(args.end.v)),
                       ItemKey(args.rt, res.items, i))
           /\ ~BytesLe(ItemKey(args.rt, res.items, i), EncodeKey(args.pt, ValueOf(args.end.v)))

(***************************************************************************)
(* SpecKey: a buffer is decoded as a key of some type, or a key value is   *)
(* encoded and its encoding decoded.                                       *)
(***************************************************************************)
\* Tuples of SpecKey have at most MaxKeyFields fields.
MaxKeyFields == 3

\* Buffers of SpecKey have at most MaxBufLen bytes.
MaxBufLen == 4

\* NUL, 'a' and the byte no UTF-8 text holds
BufBytes == {0, 97, 255}

FixedWidthTypes == {UintT(1), UintT(2), IntT(2), FloatT(4), ArrayT(0), ArrayT(2)}

IsFixedWidth(t) == t.k \in {"uint", "int", "float", "array"}

IsGreedy(t) == t.k \in {"greedy_bytes", "greedy_string"}

KeyFieldTypes == {UintT(1), UintT(2), ArrayT(0), GreedyBytesT, GreedyStringT}

KeyTypes ==
    FixedWidthTypes \cup {GreedyBytesT, GreedyStringT}
        \cup {TupleT(fs) : fs \in SeqsUpTo(KeyFieldTypes, MaxKeyFields) \ {<<>>}}

RECURSIVE KeyValues(_)
RECURSIVE KeyTupleValues(_)
KeyTupleValues(fields) ==
    IF fields = <<>> THEN {<<>>}
    ELSE {<<x>> \o q : x \in KeyValues(Head(fields)), q \in KeyTupleValues(Tail(fields))}

\* Some values of each key type
KeyValues(t) ==
    CASE t.k = "uint"  -> {0, Pow2(8 * t.w) - 1}
      [] t.k = "int"   -> {-1, 256}
      [] t.k = "float" -> {NegZero, [sign |-> 0, exp |-> 127, mant |-> Pow2(22)]}
      [] t.k = "array" -> {q \in SeqsUpTo({0, 255}, t.w) : Len(q) = t.w}
      [] t.k = "greedy_bytes"  -> {<<>>, <<255>>, <<0, 97>>}
      [] t.k = "greedy_string" -> {<<>>, <<97>>}
      [] t.k = "tuple" -> KeyTupleValues(t.fields)

KeyInit ==
    /\ \E t \in KeyTypes :
          \/ /\ pc = "buf"
             /\ \E bytes \in SeqsUpTo(BufBytes, MaxBufLen) : args = [t |-> t, bytes |-> bytes]
          \/ /\ pc = "val"
             /\ \E v \in KeyValues(t) : args = [t |-> t, v |-> v]
    /\ res = <<>>
    /\ store = EmptyMap

\* K::try_decode(bytes)
KeyDecode ==
    /\ pc = "buf"
    /\ pc' = "decoded"
    /\ res' = TryDecodeKey(args.t, args.bytes)
    /\ UNCHANGED <<args, store>>

\* K::try_decode(v.encode().as_ref())
KeyRoundTrip ==
    /\ pc = "val"
    /\ pc' = "round"
    /\ res' = [enc |-> EncodeKey(args.t, args.v),
               dec |-> TryDecodeKey(args.t, EncodeKey(args.t, args.v))]
    /\ UNCHANGED <<args, store>>

KeyNext == KeyDecode \/ KeyRoundTrip

SpecKey == KeyInit /\ [][KeyNext]_vars

Decoded == pc = "decoded"

(***************************************************************************)
(* Claims about decoding keys.                                             *)
(***************************************************************************)
\* The buffer the i-th field of a tuple is decoded from when the fields
\* before it decoded: the whole buffer for the first, then what the field
\* before left
RECURSIVE FieldInput(_, _, _)
FieldInput(fields, bytes, i) ==
    IF i = 1 THEN bytes
    ELSE TryDecodeKey(fields[i - 1], FieldInput(fields, bytes, i - 1)).rest

FieldDecode(fields, bytes, i) == TryDecodeKey(fields[i], FieldInput(fields, bytes, i))

\* The first i fields decode, each from the remainder of the one before
RECURSIVE FieldsOkUpTo(_, _, _)
FieldsOkUpTo(fields, bytes, i) ==
    i = 0 \/ (FieldsOkUpTo(fields, bytes, i - 1) /\ FieldDecode(fields, bytes, i).ok)

\* C21: a tuple is decoded field by field from left to right, each field
\* from the remainder of the previous one; the first field that fails ends
\* the decoding with an error naming its position and carrying its error,
\* and nothing else is returned; when all fields decode, the result is the
\* tuple of their values with the remainder of the last field.
C21_TupleDecodeFailFast ==
    (Decoded /\ args.t.k = "tuple") =>
        LET fs == args.t.fields
            n  == Len(fs)
        IN  /\ \A i \in 1..n :
                   (FieldsOkUpTo(fs, args.bytes, i - 1) /\ ~FieldDecode(fs, args.bytes, i).ok) =>
                       /\ res = Err([kind  |-> "TupleDecodeError",
                                     field |-> i,
                                     err   |-> FieldDecode(fs, args.bytes, i).err])
                       /\ DOMAIN res = {"ok", "err"}
            /\ FieldsOkUpTo(fs, args.bytes, n) =>
                   /\ res.ok
                   /\ res.value = [i \in 1..n |-> FieldDecode(fs, args.bytes, i).value]
                   /\ res.rest = FieldDecode(fs, args.bytes, n).rest

\* A tuple's decoding has failed at a field after the first, the fields
\* before it having consumed bytes
C21_Witness ==
    /\ Decoded
    /\ args.t.k = "tuple"
    /\ ~res.ok
    /\ res.err.field >= 2
    /\ Len(FieldInput(args.t.fields, args.bytes, res.err.field)) < Len(args.bytes)

\* C22: a fixed-width field (integer, float, [u8; N]) of width W decoded
\* from L bytes fails with DataTooShort{expected: W, actual: L} when L < W,
\* and when L >= W succeeds with the value of the first W bytes and the
\* bytes after them as the remainder.
C22_FixedWidthDecode ==
    (Decoded /\ IsFixedWidth(args.t)) =>
        LET W == args.t.w
            L == Len(args.bytes)
        IN  /\ L < W => res = Err(DataTooShort(W, L))
            /\ L >= W =>
                   /\ res.ok
                   /\ res.rest = DropBytes(args.bytes, W)
                   /\ Len(res.rest) = L - W
                   /\ EncodeKey(args.t, res.value) = TakeBytes(args.bytes, W)

\* A fixed-width field has been refused a buffer that holds some bytes but
\* not enough
C22_Witness ==
    /\ Decoded
    /\ IsFixedWidth(args.t)
    /\ 0 < Len(args.bytes)
    /\ Len(args.bytes) < args.t.w
    /\ ~res.ok

RoundTripped == pc = "round"

GreedyFields(fs) == {i \in DOMAIN fs : IsGreedy(fs[i])}

\* A tuple type with exactly one greedy field
HasOneGreedy(t) == t.k = "tuple" /\ Cardinality(GreedyFields(t.fields)) = 1

TheGreedy(t) == CHOOSE i \in GreedyFields(t.fields) : TRUE

\* The encodings of the fields i..j of a tuple, one after the other
FieldsEncoded(t, v, i, j) == EncodeTuple(SubSeq(t.fields, i, j), SubSeq(v, i, j))

\* What every reading of the greedy wrapper shares: the greedy key alone
\* encodes as its content and decodes to the whole buffer with nothing
\* left; in a tuple its content is written without a header; a tuple
\* whose one greedy field is its last round-trips
GreedyAloneOrLast ==
    /\ (Decoded /\ args.t = GreedyBytesT) => res = Ok(args.bytes, <<>>)
    /\ (Decoded /\ args.t = GreedyStringT) =>
           res = IF ValidUtf8(args.bytes) THEN Ok(args.bytes, <<>>)
                 ELSE Err([kind |-> "Utf8Error"])
    /\ (RoundTripped /\ IsGreedy(args.t)) =>
           /\ res.enc = args.v
           /\ res.dec = Ok(args.v, <<>>)
    /\ (RoundTripped /\ HasOneGreedy(args.t)) =>
           LET i == TheGreedy(args.t)
               n == Len(args.t.fields)
           IN  /\ res.enc = FieldsEncoded(args.t, args.v, 1, i - 1) \o args.v[i]
                                \o FieldsEncoded(args.t, args.v, i + 1, n)
               /\ i = n => res.dec = Ok(args.v, <<>>)

\* C23, as stated: a greedy field encodes as its content without a length
\* header and decodes to the whole buffer, leaving nothing; the round trip
\* decode(encode(v)) = (v, empty) holds only when the greedy field is the
\* sole or last field (fields of no bytes, [u8; 0], not counted); with a
\* fixed-width field of some bytes after the greedy field, decoding the
\* encoded tuple fails at that later field.
C23_GreedyLastOnly ==
    /\ GreedyAloneOrLast
    /\ (RoundTripped /\ HasOneGreedy(args.t)) =>
           LET i == TheGreedy(args.t)
               n == Len(args.t.fields)
           IN  /\ res.dec = Ok(args.v, <<>>) =>
                      \/ i = n
                      \/ \A j \in (i + 1)..n : args.t.fields[j].w = 0
               /\ (i < n /\ IsFixedWidth(args.t.fields[i + 1])
                         /\ args.t.fields[i + 1].w > 0) =>
                      /\ ~res.dec.ok
                      /\ res.dec.err.field = i + 1

\* C23, amended: a greedy field encodes as its content without a length
\* header and decodes to the whole buffer, leaving nothing, so the round
\* trip holds when the greedy field is the sole or last field.  With
\* fields after it, decoding the encoded tuple hands the greedy field its
\* content and all the later fields' bytes: a greedy string fails there
\* with a UTF-8 error when those bytes are not UTF-8; otherwise decoding
\* fails at the first later field of non-zero width W with
\* DataTooShort{W, 0}, and succeeds with (v, empty) when every later field
\* has width zero.
C23_GreedyTakesRest ==
    /\ GreedyAloneOrLast
    /\ (RoundTripped /\ HasOneGreedy(args.t)) =>
           LET fs    == args.t.fields
               i     == TheGreedy(args.t)
               n     == Len(fs)
               whole == args.v[i] \o FieldsEncoded(args.t, args.v, i + 1, n)
               wide  == {j \in (i + 1)..n : fs[j].w > 0}
               first == CHOOSE j \in wide : \A k \in wide : j <= k
           IN  i < n =>
                   IF fs[i] = GreedyStringT /\ ~ValidUtf8(whole)
                   THEN res.dec = Err([kind  |-> "TupleDecodeError",
                                       field |-> i,
                                       err   |-> [kind |-> "Utf8Error"]])
                   ELSE IF wide = {}
                   THEN res.dec = Ok(args.v, <<>>)
                   ELSE res.dec = Err([kind  |-> "TupleDecodeError",
                                       field |-> first,
                                       err   |-> DataTooShort(fs[first].w, 0)])

\* The encoding of a tuple with a non-empty greedy field followed by a
\* fixed-width field has been decoded and the later field has failed
C23_Witness ==
    /\ RoundTripped
    /\ HasOneGreedy(args.t)
    /\ TheGreedy(args.t) < Len(args.t.fields)
    /\ args.v[TheGreedy(args.t)] # <<>>
    /\ ~res.dec.ok
    /\ res.dec.err.field = TheGreedy(args.t) + 1
    /\ res.dec.err.err = DataTooShort(args.t.fields[TheGreedy(args.t) + 1].w, 0)

(***************************************************************************)
(* SpecRead: one store read through several record types.  A record type   *)
(* keyed by greedy bytes writes the entries; a type keyed by (u8, u8) and  *)
(* a type keyed by (greedy bytes, u8) fetch and scan them.                 *)
(***************************************************************************)
\* a record type keyed by GreedyKey<Vec<u8>>: its key's encoding is any
\* byte string, its payload any bytes
RawRec == [name |-> "RawRec", key |-> GreedyBytesT]

\* a record type keyed by (GreedyKey<Vec<u8>>, u8)
TailRec == [name |-> "TailRec", key |-> TupleT(<<GreedyBytesT, UintT(1)>>)]

ReadRecordTypes == {PairRec, TailRec}

\* The keys RawRec writes: an encoding of a (u8, u8) key, the same with a
\* byte after it, another (u8, u8) key, and a key too short for one
RawKeys == {<<0, 0>>, <<0, 0, 7>>, <<0, 1>>, <<1>>}

RawPayloads == {<<>>, <<97>>}

ReadKeySample(rt) ==
    IF rt = PairRec THEN {<<0, 0>>, <<0, 1>>, <<1, 0>>}
    ELSE {<<<<0>>, 0>>, <<<<0, 0>>, 7>>, <<<<>>, 1>>, <<<<1>>, 0>>}

ReadNext ==
    \/ \E k \in RawKeys, d \in RawPayloads :
          Persist(RawRec, [key |-> Typed(RawRec.key, k), data |-> d])
    \/ \E rt \in ReadRecordTypes : \E k \in ReadKeySample(rt) :
          \/ Fetch(rt, k)
          \/ RecordFetch(rt, k)
    \/ \E rt \in ReadRecordTypes :
          \/ Scan(rt)
          \/ RecordScan(rt)
    \/ RecordIterNext
    \/ Return

SpecRead == Init /\ [][ReadNext]_vars

(***************************************************************************)
(* Claims about the keys of fetched and scanned records.                   *)
(***************************************************************************)
FetchDone == pc = "done" /\ args.op \in {"fetch", "record_fetch"}

\* The payloads the record type's try_decode refuses
PayloadRefused(rt, value) == rt = PairRec /\ value = <<>>

\* C24: fetch does not decode the key bytes it finds in the store.  It
\* answers None when the encoding of the requested key is not in the
\* store; otherwise it hands the requested key and the stored value to the
\* record's try_decode and returns that record or the value's error: the
\* error is never a key decode error and the record's key is the key asked
\* for, also when the stored key bytes do not decode as a key at all.
C24_FetchKeepsRequestedKey ==
    FetchDone =>
        LET bytes == EncodeKey(args.rt.key, ValueOf(args.key))
        IN  /\ res.kind \in {"none", "some", "err"}
            /\ bytes \notin Keys(store) => res = [kind |-> "none"]
            /\ (bytes \in Keys(store) /\ ~PayloadRefused(args.rt, store.map[bytes])) =>
                   res = [kind |-> "some",
                          rec  |-> [key |-> args.key, data |-> store.map[bytes]]]
            /\ (bytes \in Keys(store) /\ PayloadRefused(args.rt, store.map[bytes])) =>
                   /\ res.kind = "err"
                   /\ args.op = "fetch" =>
                          res.err = [kind |-> "ValueDecodeError",
                                     err  |-> [kind |-> "EmptyPayload"]]
                   /\ args.op = "record_fetch" => res.err = [kind |-> "EmptyPayload"]
            /\ res.kind = "err" => res.err.kind \notin {"KeyDecodeErr", "From"}
            /\ res.kind = "some" => res.rec.key = args.key

\* fetch of store.rs has returned a record under the key asked for while
\* the stored key bytes do not decode as a key of the record's type
C24_Witness ==
    /\ FetchDone
    /\ args.op = "fetch"
    /\ res.kind = "some"
    /\ res.rec.key = args.key
    /\ ~TryDecodeKey(args.rt.key, EncodeKey(args.rt.key, ValueOf(args.key))).ok

WholeScanDone == pc = "done" /\ args.op \in {"scan", "record_scan"}

\* C25: a scan drops what the key's decoding leaves over.  An entry whose
\* key bytes begin with a key's encoding, whatever follows it, and whose
\* payload the record type accepts is yielded as the record with that key,
\* not as an error; for the type keyed by (u8, u8) that key is the first
\* two bytes.
C25_ScanDropsKeyRemainder ==
    (WholeScanDone /\ res.kind = "items") =>
        LET entries == AllEntries(StoreAtCall)
        IN  /\ Len(res.items) = Len(entries)
            /\ \A i \in DOMAIN entries :
                   LET d == TryDecodeKey(args.rt.key, entries[i][1])
                   IN  (d.ok /\ ~PayloadRefused(args.rt, entries[i][2])) =>
                           /\ res.items[i] =
                                  [ok  |-> TRUE,
                                   rec |-> [key  |-> Typed(args.rt.key, d.value),
                                            data |-> entries[i][2]]]
                           /\ args.rt = PairRec =>
                                  /\ Len(entries[i][1]) >= 2
                                  /\ ValueOf(res.items[i].rec.key) =
                                         <<entries[i][1][1], entries[i][1][2]>>

\* A scan has yielded two entries of the store as records with the same
\* key, one of them from key bytes longer than the key's encoding
C25_Witness ==
    /\ WholeScanDone
    /\ res.kind = "items"
    /\ \E i, j \in DOMAIN res.items :
           /\ i < j
           /\ res.items[i].ok
           /\ res.items[j].ok
           /\ res.items[i].rec.key = res.items[j].rec.key
           /\ Len(AllEntries(StoreAtCall)[j][1]) >
                  Len(EncodeKey(args.rt.key, ValueOf(res.items[j].rec.key)))

(***************************************************************************)
(* Claims about what the writes of store.rs leave alone.                   *)
(***************************************************************************)
\* This step is a persist or a remove of store.rs
WriteStep ==
    /\ pc = "idle"
    /\ pc' = "done"
    /\ args'.op \in {"persist", "remove"}

\* The byte key a write is about: the encoding of the record's key, or of
\* the key to remove
WrittenKey(a) ==
    EncodeKey(a.rt.key, ValueOf(IF a.op = "persist" THEN a.rec.key ELSE a.key))

\* C26: persist(record) and remove(key) of store.rs change at most the
\* entry under the encoding of the record's key, or of the key: every
\* other byte key is in the store after the call exactly when it was
\* before, with the same value, whichever record type wrote it.
C26_WritesTouchOneEntry ==
    [][WriteStep =>
          \A k \in (Keys(store) \cup Keys(store')) \ {WrittenKey(args')} :
              /\ k \in Keys(store)
              /\ k \in Keys(store')
              /\ store'.map[k] = store.map[k]]_vars

\* A persist or a remove has returned on a store that holds an entry
\* under another key, written through the other record type
C26_Witness ==
    /\ pc = "done"
    /\ args.op \in {"persist", "remove"}
    /\ \E k \in Keys(store) :
           /\ k # WrittenKey(args)
           /\ Len(k) # Len(WrittenKey(args))

(***************************************************************************)
(* Claims about a range scan with an included end and the prefix scan.     *)
(***************************************************************************)
\* What scan_prefix of the same file yields on this store
PrefixScanNow(op, rt, pt, p) ==
    IF op = "scan_range"
    THEN IterItems(rt, BTreeRange(StoreAtCall, ScanPrefixBounds(pt, p)))
    ELSE RecordIterItems(rt, StoreRange(StoreAtCall, RecordScanPrefixBounds(pt, p)))

\* For the range scans of the given operations that have returned:
\* scan_range(p..=p) has yielded what scan_prefix(p) yields, and a scan
\* whose included end encodes to nothing but 0xFF bytes has yielded every
\* entry from its start bound to the end of the store
InclusiveRangeIsPrefixScan(ops) ==
    (RangeScanReturned /\ args.op \in ops /\ args.end.kind = "Included") =>
        /\ args.start = args.end =>
               res = PrefixScanNow(args.op, args.rt, args.pt, ValueOf(args.end.v))
        /\ AllMax(EncodeKey(args.pt, ValueOf(args.end.v))) =>
               res = RangeItems(args.op, args.rt,
                                EntriesOf(StoreAtCall, {k \in Keys(StoreAtCall) :
                                                      AfterStart(args.pt, args.start, k)}))

\* C27: for every prefix value p and every store, scan_range(p..=p) yields
\* the items scan_prefix(p) yields, and scan_range with an included end
\* whose encoding is empty or all 0xFF bytes scans to the end of the store.
C27_InclusiveRangeIsPrefixScan == InclusiveRangeIsPrefixScan({"scan_range", "record_scan_range"})

=============================================================================
